---- MODULE Spec2Model ----
(***************************************************************************)
(* wg-tracker: the persistent task pipeline (State, its tasks, the         *)
(* snapshot file and the driver loop of Tracker::run).                     *)
(*                                                                         *)
(* Strings are sequences of one-character strings, so that line splitting, *)
(* prefix tests, suffix stripping and escaping are computed as the code    *)
(* computes them.  Timestamps are naturals (the code compares ISO-8601     *)
(* strings, whose lexicographic order is the chronological one).           *)
(***************************************************************************)
EXTENDS Integers, Sequences, FiniteSets, TLC

VARIABLES
    state,        \* Tracker.state: the State of the running process
    repo_config,  \* Tracker.repo_config
    pc,           \* where Tracker::run stands: "stopped", "loop", "iterated"
    result,       \* the result of the last State::iterate of this run
    exit,         \* how the last run ended: "none", "ok", "err" (the error of a
                  \* step or of the repo config), "load_err" (the error of
                  \* from_path), "save_err", "crash", "locked"
                  \* (Ok without running: another instance held the lock)
    disk,         \* the state directory: the files "state" and "state.temp"
    remote,       \* the trackers: the decisions labels, the effects made so far
    executed,     \* history: the task the last iterate ran
    resp,         \* history: the answer of the remote call of that task
    pre,          \* history: the state, retry and remote that iterate started from
    retry,        \* history: the task of the last failed step, with what it staged
    hist,         \* history: how often each follow-on task was staged (in memory)
    diskHist,     \* history: the same, as of the snapshot on disk
    runs,         \* the runs of the program started so far, by either instance
    lock          \* the instances that hold the lock of the state directory

vars == <<state, repo_config, pc, result, exit, disk, remote, executed, resp,
          pre, retry, hist, diskHist, runs, lock>>

----------------------------------------------------------------------------
(* Bounds of the model *)

\* largest timestamp the trackers report
MaxTime == 1
\* longest batch of issues a poll returns
MaxBatch == 2
\* runs of the program (invocations of Tracker::run) along one behaviour
MaxRuns == 2
\* counters of external effects and of stagings saturate here
MaxCount == 2

----------------------------------------------------------------------------
(* String helpers (std::str) *)

starts_with(s, p) == Len(s) >= Len(p) /\ SubSeq(s, 1, Len(p)) = p

strip_prefix(s, p) == SubSeq(s, Len(p) + 1, Len(s))

RECURSIVE Concat(_)
Concat(ss) == IF ss = <<>> THEN <<>> ELSE Head(ss) \o Concat(Tail(ss))

\* index of the first occurrence of pat in s at or after i, 0 if none
RECURSIVE find(_, _, _)
find(s, pat, i) ==
    IF i + Len(pat) - 1 > Len(s) THEN 0
    ELSE IF SubSeq(s, i, i + Len(pat) - 1) = pat THEN i
    ELSE find(s, pat, i + 1)

\* str::split: the pieces between the occurrences of pat (at least one piece)
RECURSIVE split(_, _)
split(s, pat) ==
    LET i == find(s, pat, 1)
    IN IF i = 0 THEN <<s>>
       ELSE <<SubSeq(s, 1, i - 1)>> \o split(SubSeq(s, i + Len(pat), Len(s)), pat)

\* str::lines: split on "\n"; a line ended by "\r\n" loses the "\r" too; a
\* final empty piece is not a line
lines(s) ==
    LET ps == split(s, <<"\n">>)
        ended == [i \in 1..(Len(ps) - 1) |->
                     IF ps[i] # <<>> /\ ps[i][Len(ps[i])] = "\r"
                     THEN SubSeq(ps[i], 1, Len(ps[i]) - 1)
                     ELSE ps[i]]
    IN IF ps[Len(ps)] = <<>> THEN ended ELSE Append(ended, ps[Len(ps)])

Digits == {"0", "1", "2", "3", "4", "5", "6", "7", "8", "9"}

\* the decimal rendering of a one- or two-digit number ({} in format!)
Digit(d) == <<"0", "1", "2", "3", "4", "5", "6", "7", "8", "9">>[d + 1]

Decimal(n) == IF n < 10 THEN <<Digit(n)>> ELSE <<Digit(n \div 10), Digit(n % 10)>>

Max(a, b) == IF a >= b THEN a ELSE b

Inc(c) == IF c < MaxCount THEN c + 1 ELSE c

----------------------------------------------------------------------------
(* String constants of the code *)

PREFIX == <<"R", "E", "S", "O", "L", "V", "E", "D", ":", " ">>

SPEC_PREFIX == <<"[", "s", "p", "e", "c", "]", " ">>

BUG == <<"b", "u", "g">>

DEFAULT == <<"d", "e", "f", "a", "u", "l", "t">>

COMPONENT_SEP == <<" ", ":", ":", " ">>

BODY_SEP == <<"-", "-", "-", "-">>

INVALID_BUGS == <<<<"I", "n", "v", "a", "l", "i", "d", " ", "B", "u", "g", "s">>,
                  <<"G", "e", "n", "e", "r", "a", "l">>>>

None == [some |-> FALSE]

Some(v) == [some |-> TRUE, val |-> v]

----------------------------------------------------------------------------
(* The configuration fetched from the decisions repository (RepoConfig) *)

WIDGETS_CORE == <<"W", " ", ":", ":", " ", "C">>

BROKEN == <<"W", ":", "C">>

\* RepoConfig: a label policy (color and prefixes) and a component map
RepoConfig ==
    [labels |-> Some([color |-> Some("c1"), prefixes |-> Some(<<<<"c">>, <<"c", "s">>>>)]),
     components |-> Some((<<"w">> :> WIDGETS_CORE) @@ (<<"x">> :> BROKEN))]

RepoConfigDefault == [labels |-> None, components |-> None]

----------------------------------------------------------------------------
(* The trackers' data, as the remote queries can return it *)

Times == 0..MaxTime

WGNums == {42}

WGTitle == <<"E", "*">>

WGLabels == <<[name |-> <<"c", "s">>, color |-> "c1"], [name |-> <<"z">>, color |-> "c2"]>>

WGIssue(n, t) ==
    [issue_number |-> n, issue_title |-> WGTitle, issue_labels |-> WGLabels,
     updated_at |-> t]

URL1 == <<"u", "1">>

URL2 == <<"u", "2">>

Urls == {URL1, URL2}

\* the comments of a working-group issue: one with a resolution, one without
Comment1 ==
    [url |-> URL1, created_at |-> 0,
     body_text |-> <<"t", "\n">> \o PREFIX \o <<"U", "\n">>]

Comment2 == [url |-> URL2, created_at |-> MaxTime, body_text |-> <<"n", "o">>]

CommentLists == {<<>>, <<Comment1, Comment2>>}

DecNums == {1, 2}

IssueId(n) == <<"I", n>>

BugLabel == [name |-> BUG, color |-> "c0"]

\* the labels a decision issue can carry: none, or "bug" with a spec label
\* (of issue 1: one whose component parses, of issue 2: one whose does not)
DecLabelChoices(n) ==
    {<<>>,
     IF n = 1
     THEN <<BugLabel, [name |-> SPEC_PREFIX \o <<"w", "-", "1">>, color |-> "c1"]>>
     ELSE <<BugLabel, [name |-> SPEC_PREFIX \o <<"x">>, color |-> "c1"]>>}

DecIssue(n, t, ls) ==
    [id |-> IssueId(n), issue_number |-> n, issue_labels |-> ls, updated_at |-> t]

Distinct(b) == \A i, j \in DOMAIN b : i # j => b[i].issue_number # b[j].issue_number

\* every batch a poll can return: up to MaxBatch issues, in any order
Batches(issues) ==
    {b \in UNION {[1..k -> issues] : k \in 0..MaxBatch} : Distinct(b)}

WGBatches(since) == Batches({WGIssue(n, t) : n \in WGNums, t \in since..MaxTime})

DecBatches(since) ==
    Batches(UNION {{DecIssue(n, t, ls) : t \in since..MaxTime, ls \in DecLabelChoices(n)} :
                      n \in DecNums})

DecTitle == <<"T">>

DecBody == <<"a", "(", "h", "t", "t", "p", "s", ":", "b", ")", "-", "-", "-", "-", "z">>

BugUrl == <<"b", "z">>

RepoId == "R"

LabelId(name) == <<"L", name>>

\* the decisions repository's labels before the tracker creates any
RemoteLabelSets == {{}, {BUG}}

----------------------------------------------------------------------------
(* Tasks (the structs implementing Task) *)

QueryWGIssuesTask(since) == [type |-> "QueryWGIssuesTask", since |-> since]

QueryDecisionsIssuesTask(since) == [type |-> "QueryDecisionsIssuesTask", since |-> since]

QueryWGIssueCommentsTask(number, title, labels, since) ==
    [type |-> "QueryWGIssueCommentsTask", number |-> number, issue_title |-> title,
     issue_labels |-> labels, since |-> since]

ProcessWGCommentTask(number, title, labels, url, body) ==
    [type |-> "ProcessWGCommentTask", issue_number |-> number, issue_title |-> title,
     issue_labels |-> labels, url |-> url, body_text |-> body]

QueryDecisionsKnownLabelsTask == [type |-> "QueryDecisionsKnownLabelsTask"]

QueryDecisionsRepoID == [type |-> "QueryDecisionsRepoID"]

EnsureLabelTask(name, color) == [type |-> "EnsureLabelTask", name |-> name, color |-> color]

FileIssueTask(number, title, labels, url, resolutions) ==
    [type |-> "FileIssueTask", issue_number |-> number, issue_title |-> title,
     issue_labels |-> labels, comment_url |-> url, resolutions |-> resolutions]

FileBugForDecisionsIssueTask(product, component, number, id) ==
    [type |-> "FileBugForDecisionsIssueTask", product |-> product,
     component |-> component, issue_number |-> number, issue_id |-> id]

FileBugForDecisionsIssueWithDetailsTask(product, component, summary, description, urls, number, id) ==
    [type |-> "FileBugForDecisionsIssueWithDetailsTask", product |-> product,
     component |-> component, summary |-> summary, description |-> description,
     urls |-> urls, issue_number |-> number, issue_id |-> id]

RemoveDecisionsIssueBugLabelTask(id) ==
    [type |-> "RemoveDecisionsIssueBugLabelTask", issue_id |-> id]

CloseIssueTask(id) == [type |-> "CloseIssueTask", issue_id |-> id]

AddIssueCommentTask(id, body) == [type |-> "AddIssueCommentTask", issue_id |-> id, body |-> body]

NoTask == [type |-> "none"]

----------------------------------------------------------------------------
(* State *)

\* State::new(date): the state of the first run ever
StartDate == 0

DecisionsStart == 0

State_new(date) ==
    [tasks |-> <<>>, posted_tasks |-> <<>>, handled_wg_comments |-> {},
     handled_decisions_issues |-> {}, known_labels |-> None,
     decisions_repo_id |-> None, last_time_wg |-> date,
     last_time_decisions |-> DecisionsStart]

\* #[derive(Default)]: what Tracker::new holds before a state is loaded
State_default ==
    [tasks |-> <<>>, posted_tasks |-> <<>>, handled_wg_comments |-> {},
     handled_decisions_issues |-> {}, known_labels |-> None,
     decisions_repo_id |-> None, last_time_wg |-> 0, last_time_decisions |-> 0]

post_task(st, task) == [st EXCEPT !.posted_tasks = Append(@, task)]

RECURSIVE post_tasks(_, _)
post_tasks(st, ts) ==
    IF ts = <<>> THEN st ELSE post_tasks(post_task(st, Head(ts)), Tail(ts))

\* (mutant) the polls are pushed to the front of tasks
check_for_updates_Front(st) ==
    LET s1 == [st EXCEPT !.tasks = <<QueryWGIssuesTask(st.last_time_wg)>> \o @]
    IN [s1 EXCEPT !.tasks = <<QueryDecisionsIssuesTask(s1.last_time_decisions)>> \o @]

check_for_updates(st) ==
    LET s1 == [st EXCEPT !.tasks = Append(@, QueryWGIssuesTask(st.last_time_wg))]
    IN [s1 EXCEPT !.tasks = Append(@, QueryDecisionsIssuesTask(s1.last_time_decisions))]

\* (mutant) the staged tasks are not looked at
is_finished_TasksOnly(st) == st.tasks = <<>>

is_finished(st) == st.tasks = <<>> /\ st.posted_tasks = <<>>

----------------------------------------------------------------------------
(* Results of Task::run: the state it leaves, Ok or Err, and the remote     *)
(* mutation it made, if any                                                *)

NoCall == [op |-> "none"]

Ok(st) == [st |-> st, res |-> "ok", call |-> NoCall]

Err(st) == [st |-> st, res |-> "err", call |-> NoCall]

OkCall(st, call) == [st |-> st, res |-> "ok", call |-> call]

\* a remote call's answer: an error, or a value
Failed == [ok |-> FALSE]

Answer(v) == [ok |-> TRUE, val |-> v]

----------------------------------------------------------------------------
(* QueryWGIssuesTask *)

WGCommentsTasks(self, issues) ==
    [i \in DOMAIN issues |->
        QueryWGIssueCommentsTask(issues[i].issue_number, issues[i].issue_title,
                                 issues[i].issue_labels, self.since)]

\* (mutant) the poll of the working group moves both watermarks
QueryWGIssuesTask_run_BothWatermarks(self, st, r) ==
    IF ~r.ok THEN Err(st)
    ELSE LET issues == r.val
             s1 == IF issues # <<>>
                   THEN [st EXCEPT !.last_time_wg = issues[Len(issues)].updated_at,
                                   !.last_time_decisions = issues[Len(issues)].updated_at]
                   ELSE st
         IN Ok(post_tasks(s1, WGCommentsTasks(self, issues)))

QueryWGIssuesTask_run(self, st, r) ==
    IF ~r.ok THEN Err(st)
    ELSE LET issues == r.val
             s1 == IF issues # <<>>
                   THEN [st EXCEPT !.last_time_wg = issues[Len(issues)].updated_at]
                   ELSE st
         IN Ok(post_tasks(s1, WGCommentsTasks(self, issues)))

----------------------------------------------------------------------------
(* QueryDecisionsIssuesTask *)

parse_component(s) ==
    LET bits == split(s, COMPONENT_SEP)
    IN IF Len(bits) = 2 THEN Answer(<<bits[1], bits[2]>>) ELSE Failed

\* spec.pop() while the last character is a digit or a hyphen
RECURSIVE StripSpecSuffix(_)
StripSpecSuffix(spec) ==
    IF spec = <<>> THEN spec
    ELSE IF spec[Len(spec)] \in Digits \/ spec[Len(spec)] = "-"
         THEN StripSpecSuffix(SubSeq(spec, 1, Len(spec) - 1))
         ELSE spec

\* the component strings of the issue's "[spec] " labels found in the map
RECURSIVE Components(_, _)
Components(labels, cfg) ==
    IF labels = <<>> THEN <<>>
    ELSE LET label == Head(labels)
             rest == Components(Tail(labels), cfg)
         IN IF ~starts_with(label.name, SPEC_PREFIX) THEN rest
            ELSE LET spec == StripSpecSuffix(strip_prefix(label.name, SPEC_PREFIX))
                 IN IF cfg.components.some /\ spec \in DOMAIN cfg.components.val
                    THEN <<cfg.components.val[spec]>> \o rest
                    ELSE rest

\* (mutant) the first match is used however many there are
ProductComponent_FirstMatch(labels, cfg) ==
    LET components == Components(labels, cfg)
        product_component ==
            IF Len(components) >= 1 THEN Some(parse_component(components[1]))
            ELSE IF cfg.components.some
                 THEN IF DEFAULT \in DOMAIN cfg.components.val
                      THEN Some(parse_component(cfg.components.val[DEFAULT]))
                      ELSE None
                 ELSE None
    IN IF product_component.some THEN product_component.val ELSE Answer(INVALID_BUGS)

ProductComponent(labels, cfg) ==
    LET components == Components(labels, cfg)
        product_component ==
            IF Len(components) = 1 THEN Some(parse_component(components[1]))
            ELSE IF cfg.components.some
                 THEN IF DEFAULT \in DOMAIN cfg.components.val
                      THEN Some(parse_component(cfg.components.val[DEFAULT]))
                      ELSE None
                 ELSE None
    IN IF product_component.some THEN product_component.val ELSE Answer(INVALID_BUGS)

HasBugLabel(labels) == \E i \in DOMAIN labels : labels[i].name = BUG
\* (mutant) the loop without the test of handled_decisions_issues
RECURSIVE DecisionsIssuesLoop_NoLedger(_, _, _)
DecisionsIssuesLoop_NoLedger(st, issues, cfg) ==
    IF issues = <<>> THEN Ok(st)
    ELSE LET issue == Head(issues)
         IN IF ~HasBugLabel(issue.issue_labels)
            THEN DecisionsIssuesLoop_NoLedger(st, Tail(issues), cfg)
            ELSE LET s1 == [st EXCEPT !.handled_decisions_issues = @ \cup {issue.issue_number}]
                     product_component == ProductComponent(issue.issue_labels, cfg)
                 IN IF ~product_component.ok THEN Err(s1)
                    ELSE LET s2 == post_task(s1,
                                     FileBugForDecisionsIssueTask(product_component.val[1],
                                         product_component.val[2], issue.issue_number, issue.id))
                             s3 == post_task(s2, RemoveDecisionsIssueBugLabelTask(issue.id))
                             s4 == post_task(s3, CloseIssueTask(issue.id))
                         IN DecisionsIssuesLoop_NoLedger(s4, Tail(issues), cfg)

\* (mutant) the CloseIssueTask is staged first
RECURSIVE DecisionsIssuesLoop_CloseFirst(_, _, _)
DecisionsIssuesLoop_CloseFirst(st, issues, cfg) ==
    IF issues = <<>> THEN Ok(st)
    ELSE LET issue == Head(issues)
         IN IF issue.issue_number \in st.handled_decisions_issues
            THEN DecisionsIssuesLoop_CloseFirst(st, Tail(issues), cfg)
            ELSE IF ~HasBugLabel(issue.issue_labels)
            THEN DecisionsIssuesLoop_CloseFirst(st, Tail(issues), cfg)
            ELSE LET s1 == [st EXCEPT !.handled_decisions_issues = @ \cup {issue.issue_number}]
                     product_component == ProductComponent(issue.issue_labels, cfg)
                 IN IF ~product_component.ok THEN Err(s1)
                    ELSE LET s2 == post_task(s1, CloseIssueTask(issue.id))
                             s3 == post_task(s2,
                                     FileBugForDecisionsIssueTask(product_component.val[1],
                                         product_component.val[2], issue.issue_number, issue.id))
                             s4 == post_task(s3, RemoveDecisionsIssueBugLabelTask(issue.id))
                         IN DecisionsIssuesLoop_CloseFirst(s4, Tail(issues), cfg)

\* the loop over the polled issues, with its early return on a component
\* that does not parse
RECURSIVE DecisionsIssuesLoop(_, _, _)
DecisionsIssuesLoop(st, issues, cfg) ==
    IF issues = <<>> THEN Ok(st)
    ELSE LET issue == Head(issues)
         IN IF issue.issue_number \in st.handled_decisions_issues
            THEN DecisionsIssuesLoop(st, Tail(issues), cfg)
            ELSE IF ~HasBugLabel(issue.issue_labels)
            THEN DecisionsIssuesLoop(st, Tail(issues), cfg)
            ELSE LET s1 == [st EXCEPT !.handled_decisions_issues = @ \cup {issue.issue_number}]
                     product_component == ProductComponent(issue.issue_labels, cfg)
                 IN IF ~product_component.ok THEN Err(s1)
                    ELSE LET s2 == post_task(s1,
                                     FileBugForDecisionsIssueTask(product_component.val[1],
                                         product_component.val[2], issue.issue_number, issue.id))
                             s3 == post_task(s2, RemoveDecisionsIssueBugLabelTask(issue.id))
                             s4 == post_task(s3, CloseIssueTask(issue.id))
                         IN DecisionsIssuesLoop(s4, Tail(issues), cfg)

QueryDecisionsIssuesTask_run(self, st, cfg, r) ==
    IF ~r.ok THEN Err(st)
    ELSE LET issues == r.val
             s1 == IF issues # <<>>
                   THEN [st EXCEPT !.last_time_decisions = issues[Len(issues)].updated_at]
                   ELSE st
         IN DecisionsIssuesLoop(s1, issues, cfg)

----------------------------------------------------------------------------
(* QueryWGIssueCommentsTask *)

\* (mutant) a comment created at the very time of since is left out
RECURSIVE CommentTasks_Later(_, _)
CommentTasks_Later(self, comments) ==
    IF comments = <<>> THEN <<>>
    ELSE LET comment == Head(comments)
             rest == CommentTasks_Later(self, Tail(comments))
         IN IF comment.created_at > self.since
            THEN <<ProcessWGCommentTask(self.number, self.issue_title, self.issue_labels,
                                        comment.url, comment.body_text)>> \o rest
            ELSE rest

RECURSIVE CommentTasks(_, _)
CommentTasks(self, comments) ==
    IF comments = <<>> THEN <<>>
    ELSE LET comment == Head(comments)
             rest == CommentTasks(self, Tail(comments))
         IN IF comment.created_at >= self.since
            THEN <<ProcessWGCommentTask(self.number, self.issue_title, self.issue_labels,
                                        comment.url, comment.body_text)>> \o rest
            ELSE rest

QueryWGIssueCommentsTask_run(self, st, r) ==
    IF ~r.ok THEN Err(st) ELSE Ok(post_tasks(st, CommentTasks(self, r.val)))

----------------------------------------------------------------------------
(* ProcessWGCommentTask *)

\* (mutant) the marker is left on the lines
RECURSIVE Resolutions_KeepMarker(_)
Resolutions_KeepMarker(ls) ==
    IF ls = <<>> THEN <<>>
    ELSE IF starts_with(Head(ls), PREFIX)
         THEN <<Head(ls)>> \o Resolutions_KeepMarker(Tail(ls))
         ELSE Resolutions_KeepMarker(Tail(ls))

\* the lines that start with PREFIX, without it
RECURSIVE Resolutions(_)
Resolutions(ls) ==
    IF ls = <<>> THEN <<>>
    ELSE IF starts_with(Head(ls), PREFIX)
         THEN <<strip_prefix(Head(ls), PREFIX)>> \o Resolutions(Tail(ls))
         ELSE Resolutions(Tail(ls))

LabelDesired(label, labels_config) ==
    \/ labels_config.color.some /\ label.color = labels_config.color.val
    \/ /\ labels_config.prefixes.some
       /\ \E i \in DOMAIN labels_config.prefixes.val :
              starts_with(label.name, labels_config.prefixes.val[i])

\* (mutant) the loop over the prefixes without its break
RECURSIVE PrefixPushes_NoBreak(_, _)
PrefixPushes_NoBreak(label, prefixes) ==
    IF prefixes = <<>> THEN <<>>
    ELSE IF starts_with(label.name, Head(prefixes))
         THEN <<label>> \o PrefixPushes_NoBreak(label, Tail(prefixes))
         ELSE PrefixPushes_NoBreak(label, Tail(prefixes))

\* the loop over the prefixes: the label is pushed at the first prefix it
\* starts with, and the loop is left
RECURSIVE PrefixPushes(_, _)
PrefixPushes(label, prefixes) ==
    IF prefixes = <<>> THEN <<>>
    ELSE IF starts_with(label.name, Head(prefixes)) THEN <<label>>
         ELSE PrefixPushes(label, Tail(prefixes))

\* what one turn of the loop over the issue's labels pushes: the label if
\* its color is the configured one (continue), else what the prefixes give
LabelPushes(label, labels_config) ==
    IF labels_config.color.some /\ label.color = labels_config.color.val
    THEN <<label>>
    ELSE IF labels_config.prefixes.some
         THEN PrefixPushes(label, labels_config.prefixes.val)
         ELSE <<>>

RECURSIVE DesiredLabels(_, _)
DesiredLabels(labels, cfg) ==
    IF ~cfg.labels.some \/ labels = <<>> THEN <<>>
    ELSE LabelPushes(Head(labels), cfg.labels.val) \o DesiredLabels(Tail(labels), cfg)
\* (mutant) the comment is processed whether or not its url was handled
ProcessWGCommentTask_run_NoLedger(self, st, cfg) ==
    LET resolutions == Resolutions(lines(self.body_text))
    IN IF resolutions = <<>> THEN Ok(st)
       ELSE LET s1 == [st EXCEPT !.handled_wg_comments = @ \cup {self.url}]
                desired_labels == DesiredLabels(self.issue_labels, cfg)
                s2 == post_tasks(s1, [i \in DOMAIN desired_labels |->
                          EnsureLabelTask(SPEC_PREFIX \o desired_labels[i].name,
                                          desired_labels[i].color)])
            IN Ok(post_task(s2,
                    FileIssueTask(self.issue_number, self.issue_title,
                        [i \in DOMAIN desired_labels |-> SPEC_PREFIX \o desired_labels[i].name],
                        self.url, resolutions)))

\* (mutant) the url is marked handled before the resolutions are looked at
ProcessWGCommentTask_run_MarkFirst(self, st, cfg) ==
    LET resolutions == Resolutions(lines(self.body_text))
    IN IF self.url \in st.handled_wg_comments THEN Ok(st)
       ELSE LET s1 == [st EXCEPT !.handled_wg_comments = @ \cup {self.url}]
                desired_labels == DesiredLabels(self.issue_labels, cfg)
                s2 == post_tasks(s1, [i \in DOMAIN desired_labels |->
                          EnsureLabelTask(SPEC_PREFIX \o desired_labels[i].name,
                                          desired_labels[i].color)])
            IN IF resolutions = <<>> THEN Ok(s1)
               ELSE Ok(post_task(s2,
                       FileIssueTask(self.issue_number, self.issue_title,
                           [i \in DOMAIN desired_labels |-> SPEC_PREFIX \o desired_labels[i].name],
                           self.url, resolutions)))

\* (mutant) the FileIssueTask is staged before the EnsureLabelTasks
ProcessWGCommentTask_run_FileFirst(self, st, cfg) ==
    LET resolutions == Resolutions(lines(self.body_text))
    IN IF resolutions = <<>> THEN Ok(st)
       ELSE IF self.url \in st.handled_wg_comments THEN Ok(st)
       ELSE LET s1 == [st EXCEPT !.handled_wg_comments = @ \cup {self.url}]
                desired_labels == DesiredLabels(self.issue_labels, cfg)
                s2 == post_task(s1,
                        FileIssueTask(self.issue_number, self.issue_title,
                            [i \in DOMAIN desired_labels |-> SPEC_PREFIX \o desired_labels[i].name],
                            self.url, resolutions))
            IN Ok(post_tasks(s2, [i \in DOMAIN desired_labels |->
                          EnsureLabelTask(SPEC_PREFIX \o desired_labels[i].name,
                                          desired_labels[i].color)]))

ProcessWGCommentTask_run(self, st, cfg) ==
    LET resolutions == Resolutions(lines(self.body_text))
    IN IF resolutions = <<>> THEN Ok(st)
       ELSE IF self.url \in st.handled_wg_comments THEN Ok(st)
       ELSE LET s1 == [st EXCEPT !.handled_wg_comments = @ \cup {self.url}]
                desired_labels == DesiredLabels(self.issue_labels, cfg)
                s2 == post_tasks(s1, [i \in DOMAIN desired_labels |->
                          EnsureLabelTask(SPEC_PREFIX \o desired_labels[i].name,
                                          desired_labels[i].color)])
            IN Ok(post_task(s2,
                    FileIssueTask(self.issue_number, self.issue_title,
                        [i \in DOMAIN desired_labels |-> SPEC_PREFIX \o desired_labels[i].name],
                        self.url, resolutions)))

----------------------------------------------------------------------------
(* util.rs *)

\* ESCAPE_MARKDOWN_RE: the characters escape_markdown rewrites (the grave
\* accent is written "grave": the character cannot stand in a string here)
ESCAPE_MARKDOWN_RE ==
    {"#", "&", "(", ")", "*", "+", "<", ">", "[", "]", "\\", "_", "grave", "|", "-"}

EscapeChar(c) ==
    IF c \notin ESCAPE_MARKDOWN_RE THEN <<c>>
    ELSE CASE c = "\\" -> <<"\\", "\\">>
           [] c = "&" -> <<"&", "a", "m", "p", ";">>
           [] c = "<" -> <<"&", "l", "t", ";">>
           [] c = ">" -> <<"&", "g", "t", ";">>
           [] c = "|" -> <<"&", "1", "2", "4", ";">>
           [] OTHER -> <<"\\", c>>

\* (mutant) nothing is escaped
escape_markdown_None(s) == s

escape_markdown(s) == Concat([i \in DOMAIN s |-> EscapeChar(s[i])])

HTTPS_OPEN == <<"(", "h", "t", "t", "p", "s", ":">>

\* MARKDOWN_URLS_RE, \((https:[^)]*) : each "(https:" up to the next ")"
RECURSIVE extract_urls(_)
extract_urls(s) ==
    LET i == find(s, HTTPS_OPEN, 1)
    IN IF i = 0 THEN <<>>
       ELSE LET close == find(s, <<")">>, i)
                stop == IF close = 0 THEN Len(s) + 1 ELSE close
            IN <<SubSeq(s, i + 1, stop - 1)>> \o extract_urls(SubSeq(s, stop, Len(s)))

----------------------------------------------------------------------------
(* config.rs: the values of the configuration file the tasks read *)

wg_repo_owner == <<"o">>

wg_repo_name == <<"w", "g">>

decisions_repo_owner == <<"o">>

decisions_repo_name == <<"d">>

GITHUB == <<"h", "t", "t", "p", "s", ":", "/", "/", "g", "i", "t", "h", "u", "b", ".", "c", "o",
      "m", "/">>

wg_repo_url == GITHUB \o wg_repo_owner \o <<"/">> \o wg_repo_name

decisions_repo_url == GITHUB \o decisions_repo_owner \o <<"/">> \o decisions_repo_name

ISSUES == <<"/", "i", "s", "s", "u", "e", "s", "/">>

----------------------------------------------------------------------------
(* QueryDecisionsKnownLabelsTask, QueryDecisionsRepoID *)

\* HashMap::insert
insert(m, k, v) == [x \in DOMAIN m \cup {k} |-> IF x = k THEN v ELSE m[x]]

RECURSIVE InsertLabels(_, _)
InsertLabels(m, labels) ==
    IF labels = <<>> THEN m
    ELSE InsertLabels(insert(m, Head(labels).name, Head(labels).id), Tail(labels))

\* (mutant) the labels the query returned are not put into the cache
QueryDecisionsKnownLabelsTask_run_Empty(self, st, r) ==
    IF ~r.ok THEN Err(st)
    ELSE LET known_labels == IF st.known_labels.some THEN st.known_labels.val ELSE <<>>
         IN Ok([st EXCEPT !.known_labels = Some(known_labels)])

QueryDecisionsKnownLabelsTask_run(self, st, r) ==
    IF ~r.ok THEN Err(st)
    ELSE LET known_labels == IF st.known_labels.some THEN st.known_labels.val ELSE <<>>
         IN Ok([st EXCEPT !.known_labels = Some(InsertLabels(known_labels, r.val))])

\* (mutant) the repository id is not kept
QueryDecisionsRepoID_run_NoStore(self, st, r) ==
    IF ~r.ok THEN Err(st)
    ELSE IF ~r.val.some THEN Err(st)
    ELSE Ok(st)

\* (mutant) storing the repository id drops the label cache
QueryDecisionsRepoID_run_DropLabels(self, st, r) ==
    IF ~r.ok THEN Err(st)
    ELSE IF ~r.val.some THEN Err(st)
    ELSE Ok([st EXCEPT !.decisions_repo_id = r.val, !.known_labels = None])

QueryDecisionsRepoID_run(self, st, r) ==
    IF ~r.ok THEN Err(st)
    ELSE IF ~r.val.some THEN Err(st)
    ELSE Ok([st EXCEPT !.decisions_repo_id = r.val])

----------------------------------------------------------------------------
(* EnsureLabelTask *)

\* (mutant) the task stages itself in front of the loader it waits for
EnsureLabelTask_run_SelfFirst(self, st, r) ==
    IF ~st.known_labels.some
    THEN Ok(post_task(post_task(st, self), QueryDecisionsKnownLabelsTask))
    ELSE IF ~st.decisions_repo_id.some
    THEN Ok(post_task(post_task(st, self), QueryDecisionsRepoID))
    ELSE IF self.name \in DOMAIN st.known_labels.val THEN Ok(st)
    ELSE IF ~r.ok THEN Err(st)
    ELSE OkCall([st EXCEPT !.known_labels = Some(insert(st.known_labels.val, self.name, r.val))],
                [op |-> "create_label", repo_id |-> st.decisions_repo_id.val,
                 name |-> self.name, color |-> self.color])

\* (mutant) the label is created whether or not the cache holds its name
EnsureLabelTask_run_AlwaysCreate(self, st, r) ==
    IF ~st.known_labels.some
    THEN Ok(post_task(post_task(st, QueryDecisionsKnownLabelsTask), self))
    ELSE IF ~st.decisions_repo_id.some
    THEN Ok(post_task(post_task(st, QueryDecisionsRepoID), self))
    ELSE IF ~r.ok THEN Err(st)
    ELSE OkCall([st EXCEPT !.known_labels = Some(insert(st.known_labels.val, self.name, r.val))],
                [op |-> "create_label", repo_id |-> st.decisions_repo_id.val,
                 name |-> self.name, color |-> self.color])

EnsureLabelTask_run(self, st, r) ==
    IF ~st.known_labels.some
    THEN Ok(post_task(post_task(st, QueryDecisionsKnownLabelsTask), self))
    ELSE IF ~st.decisions_repo_id.some
    THEN Ok(post_task(post_task(st, QueryDecisionsRepoID), self))
    ELSE IF self.name \in DOMAIN st.known_labels.val THEN Ok(st)
    ELSE IF ~r.ok THEN Err(st)
    ELSE OkCall([st EXCEPT !.known_labels = Some(insert(st.known_labels.val, self.name, r.val))],
                [op |-> "create_label", repo_id |-> st.decisions_repo_id.val,
                 name |-> self.name, color |-> self.color])

----------------------------------------------------------------------------
(* FileIssueTask *)

BODY_MADE_FOR == <<" ", "m", "a", "d", "e", " ", "f", "o", "r", " ", "[">>

BODY_TRAILER ==
    <<")", "\n", "\n", "-", "-", "-", "-", "\n", "\n", "T", "o", " ", "f", "i", "l", "e",
      " ", "a", " ", "b", "u", "g", " ", "a", "u", "t", "o", "m", "a", "t", "i", "c",
      "a", "l", "l", "y", " ", "f", "o", "r", " ", "t", "h", "e", "s", "e", " ", "r",
      "e", "s", "o", "l", "u", "t", "i", "o", "n", "s", ",", " ", "a", "d", "d", " ",
      "t", "h", "e", " ", "*", "*", "b", "u", "g", "*", "*", " ", "l", "a", "b", "e",
      "l", " ", "t", "o", " ", "t", "h", "e", " ", "i", "s", "s", "u", "e", ".", "\n",
      "\n", "I", "f", " ", "n", "o", " ", "b", "u", "g", " ", "i", "s", " ", "n", "e",
      "e", "d", "e", "d", ",", " ", "t", "h", "e", " ", "i", "s", "s", "u", "e", " ",
      "c", "a", "n", " ", "b", "e", " ", "c", "l", "o", "s", "e", "d", ".">>

IssueBody(self) ==
    LET plural == IF Len(self.resolutions) = 1
                  THEN <<"A", " ", "r", "e", "s", "o", "l", "u", "t", "i", "o", "n", " ", "w", "a", "s">>
                  ELSE <<"R", "e", "s", "o", "l", "u", "t", "i", "o", "n", "s", " ", "w", "e", "r", "e">>
        issue_url == wg_repo_url \o ISSUES \o Decimal(self.issue_number)
    IN plural \o BODY_MADE_FOR \o wg_repo_name \o <<"/", "#">> \o Decimal(self.issue_number)
       \o <<"]", "(">> \o issue_url \o <<")", ".", "\n", "\n", "*", "*">>
       \o escape_markdown(self.issue_title) \o <<"*", "*", "\n", "\n">>
       \o Concat([i \in DOMAIN self.resolutions |->
                    <<"*", " ">> \o PREFIX \o escape_markdown(self.resolutions[i]) \o <<"\n">>])
       \o <<"\n", "\n">> \o <<"[", "D", "i", "s", "c", "u", "s", "s", "i", "o", "n", ".", "]", "(">>
       \o self.comment_url \o BODY_TRAILER

\* the ids of the task's labels that are in the cache, in the task's order
RECURSIVE LabelIds(_, _)
LabelIds(names, known_labels) ==
    IF names = <<>> THEN <<>>
    ELSE IF Head(names) \in DOMAIN known_labels
         THEN <<known_labels[Head(names)]>> \o LabelIds(Tail(names), known_labels)
         ELSE LabelIds(Tail(names), known_labels)

FileIssueTask_run(self, st, r) ==
    IF ~st.known_labels.some
    THEN Ok(post_task(post_task(st, QueryDecisionsKnownLabelsTask), self))
    ELSE IF ~st.decisions_repo_id.some
    THEN Ok(post_task(post_task(st, QueryDecisionsRepoID), self))
    ELSE IF ~r.ok THEN Err(st)
    ELSE OkCall(st, [op |-> "create_issue", repo_id |-> st.decisions_repo_id.val,
                     title |-> self.issue_title, body |-> IssueBody(self),
                     labels |-> LabelIds(self.issue_labels, st.known_labels.val),
                     comment_url |-> self.comment_url])

----------------------------------------------------------------------------
(* RemoveDecisionsIssueBugLabelTask, CloseIssueTask, AddIssueCommentTask *)

\* (mutant) a cache without "bug" lets the task pass without a call
RemoveDecisionsIssueBugLabelTask_run_SkipMissing(self, st, r) ==
    IF ~st.known_labels.some
    THEN Ok(post_task(post_task(st, QueryDecisionsKnownLabelsTask), self))
    ELSE IF BUG \notin DOMAIN st.known_labels.val THEN Ok(st)
    ELSE IF ~r.ok THEN Err(st)
    ELSE OkCall(st, [op |-> "remove_labels", issue_id |-> self.issue_id,
                     labels |-> <<st.known_labels.val[BUG]>>])

RemoveDecisionsIssueBugLabelTask_run(self, st, r) ==
    IF ~st.known_labels.some
    THEN Ok(post_task(post_task(st, QueryDecisionsKnownLabelsTask), self))
    ELSE IF BUG \notin DOMAIN st.known_labels.val THEN Err(st)
    ELSE IF ~r.ok THEN Err(st)
    ELSE OkCall(st, [op |-> "remove_labels", issue_id |-> self.issue_id,
                     labels |-> <<st.known_labels.val[BUG]>>])

CloseIssueTask_run(self, st, r) ==
    IF ~r.ok THEN Err(st)
    ELSE OkCall(st, [op |-> "close_issue", issue_id |-> self.issue_id])

AddIssueCommentTask_run(self, st, r) ==
    IF ~r.ok THEN Err(st)
    ELSE OkCall(st, [op |-> "add_issue_comment", issue_id |-> self.issue_id,
                     body |-> self.body])

----------------------------------------------------------------------------
(* FileBugForDecisionsIssueTask, FileBugForDecisionsIssueWithDetailsTask *)

FileBugForDecisionsIssueTask_run(self, st, r) ==
    IF ~r.ok THEN Err(st)
    ELSE LET title == r.val[1]
             body == split(r.val[2], BODY_SEP)[1]
             urls == Append(extract_urls(body),
                            decisions_repo_url \o ISSUES \o Decimal(self.issue_number))
         IN Ok(post_task(st,
                FileBugForDecisionsIssueWithDetailsTask(self.product, self.component,
                    title, body, urls, self.issue_number, self.issue_id)))

FileBugForDecisionsIssueWithDetailsTask_run(self, st, r) ==
    IF ~r.ok THEN Err(st)
    ELSE [st |-> post_task(st, AddIssueCommentTask(self.issue_id, r.val)),
          res |-> "ok",
          call |-> [op |-> "file_bug", product |-> self.product,
                    component |-> self.component, summary |-> self.summary,
                    description |-> self.description, urls |-> self.urls,
                    issue_number |-> self.issue_number]]

----------------------------------------------------------------------------
(* State::iterate *)

\* the dispatch of task.run(self, config, repo_config)
run(task, st, cfg, r) ==
    CASE task.type = "QueryWGIssuesTask" -> QueryWGIssuesTask_run(task, st, r)
      [] task.type = "QueryDecisionsIssuesTask" -> QueryDecisionsIssuesTask_run(task, st, cfg, r)
      [] task.type = "QueryWGIssueCommentsTask" -> QueryWGIssueCommentsTask_run(task, st, r)
      [] task.type = "ProcessWGCommentTask" -> ProcessWGCommentTask_run(task, st, cfg)
      [] task.type = "QueryDecisionsKnownLabelsTask" -> QueryDecisionsKnownLabelsTask_run(task, st, r)
      [] task.type = "QueryDecisionsRepoID" -> QueryDecisionsRepoID_run(task, st, r)
      [] task.type = "EnsureLabelTask" -> EnsureLabelTask_run(task, st, r)
      [] task.type = "FileIssueTask" -> FileIssueTask_run(task, st, r)
      [] task.type = "RemoveDecisionsIssueBugLabelTask" -> RemoveDecisionsIssueBugLabelTask_run(task, st, r)
      [] task.type = "CloseIssueTask" -> CloseIssueTask_run(task, st, r)
      [] task.type = "FileBugForDecisionsIssueTask" -> FileBugForDecisionsIssueTask_run(task, st, r)
      [] task.type = "FileBugForDecisionsIssueWithDetailsTask" ->
             FileBugForDecisionsIssueWithDetailsTask_run(task, st, r)
      [] task.type = "AddIssueCommentTask" -> AddIssueCommentTask_run(task, st, r)
\* (mutant) the staged tasks go behind the queue instead of in front of it
MergePosted_Back(st) ==
    IF st.posted_tasks # <<>>
    THEN [st EXCEPT !.posted_tasks = <<>>, !.tasks = st.tasks \o st.posted_tasks]
    ELSE st

\* the first block of iterate: posted_tasks, then what tasks held, become tasks
MergePosted(st) ==
    IF st.posted_tasks # <<>>
    THEN LET new_tasks == st.posted_tasks \o st.tasks
         IN [st EXCEPT !.posted_tasks = <<>>, !.tasks = new_tasks]
    ELSE st

\* the task iterate runs from st: the front of the merged queue
NextTask(st) ==
    LET m == MergePosted(st) IN IF m.tasks = <<>> THEN NoTask ELSE Head(m.tasks)
\* (mutant) a failed task goes to the back of tasks
Requeue_Back(out, task) ==
    IF out.res = "err" THEN [out EXCEPT !.st.tasks = @ \o <<task>>] ELSE out

\* (mutant) a failed task is dropped
Requeue_Drop(out, task) == out

\* (mutant) a failed task goes behind the task that followed it
Requeue_Second(out, task) ==
    IF out.res = "err"
    THEN [out EXCEPT !.st.tasks = IF @ = <<>> THEN <<task>>
                                  ELSE <<Head(@), task>> \o Tail(@)]
    ELSE out

\* a failed task goes back to the front of tasks
Requeue(out, task) ==
    IF out.res = "err" THEN [out EXCEPT !.st.tasks = <<task>> \o @] ELSE out

iterate(st, cfg, r) ==
    LET m == MergePosted(st)
    IN IF m.tasks = <<>> THEN Ok(m)
       ELSE LET task == Head(m.tasks)
                popped == [m EXCEPT !.tasks = Tail(@)]
            IN Requeue(run(task, popped, cfg, r), task)

----------------------------------------------------------------------------
(* The remote services *)

SetToSeq(S) == CHOOSE q \in [1..Cardinality(S) -> S] : {q[i] : i \in DOMAIN q} = S

KnownLabelsAnswer(names) ==
    LET q == SetToSeq(names) IN [i \in DOMAIN q |-> [id |-> LabelId(q[i]), name |-> q[i]]]

\* the answers the remote call of a task can get
Responses(task, rem) ==
    CASE task.type = "QueryWGIssuesTask" ->
             {Failed} \cup {Answer(b) : b \in WGBatches(task.since)}
      [] task.type = "QueryDecisionsIssuesTask" ->
             {Failed} \cup {Answer(b) : b \in DecBatches(task.since)}
      [] task.type = "QueryWGIssueCommentsTask" ->
             {Failed} \cup {Answer(c) : c \in CommentLists}
      [] task.type = "QueryDecisionsKnownLabelsTask" ->
             {Failed, Answer(KnownLabelsAnswer(rem.labels))}
      [] task.type = "QueryDecisionsRepoID" -> {Failed, Answer(None), Answer(Some(RepoId))}
      [] task.type = "EnsureLabelTask" -> {Failed, Answer(LabelId(task.name))}
      [] task.type = "FileBugForDecisionsIssueTask" -> {Failed, Answer(<<DecTitle, DecBody>>)}
      [] task.type = "FileBugForDecisionsIssueWithDetailsTask" -> {Failed, Answer(BugUrl)}
      [] task.type \in {"FileIssueTask", "RemoveDecisionsIssueBugLabelTask",
                        "CloseIssueTask", "AddIssueCommentTask"} -> {Failed, Answer(TRUE)}
      [] OTHER -> {Answer(TRUE)}

Count(f, k) == IF k \in DOMAIN f THEN f[k] ELSE 0

Bump(f, k) == insert(f, k, Inc(Count(f, k)))

\* the effect of a remote mutation on the trackers
Apply(rem, call) ==
    CASE call.op = "create_label" ->
             [rem EXCEPT !.labels = @ \cup {call.name},
                         !.label_creates = Bump(@, call.name)]
      [] call.op = "create_issue" -> [rem EXCEPT !.issues = Bump(@, call.comment_url)]
      [] call.op = "file_bug" -> [rem EXCEPT !.bugs = Bump(@, call.issue_number)]
      [] call.op = "add_issue_comment" ->
             [rem EXCEPT !.comments = @ \cup {<<call.issue_id, call.body>>}]
      [] call.op = "remove_labels" -> [rem EXCEPT !.unlabeled = @ \cup {call.issue_id}]
      [] call.op = "close_issue" -> [rem EXCEPT !.closed = @ \cup {call.issue_id}]
      [] OTHER -> rem

----------------------------------------------------------------------------
(* History: the follow-on tasks staged so far along the life of a state *)

NoHist == [FileIssueTask |-> <<>>, FileBugForDecisionsIssueTask |-> <<>>,
           RemoveDecisionsIssueBugLabelTask |-> <<>>, CloseIssueTask |-> <<>>]

Staged1(h, t) ==
    CASE t.type = "FileIssueTask" -> [h EXCEPT !.FileIssueTask = Bump(@, t.comment_url)]
      [] t.type = "FileBugForDecisionsIssueTask" ->
             [h EXCEPT !.FileBugForDecisionsIssueTask = Bump(@, t.issue_number)]
      [] t.type = "RemoveDecisionsIssueBugLabelTask" ->
             [h EXCEPT !.RemoveDecisionsIssueBugLabelTask = Bump(@, t.issue_id[2])]
      [] t.type = "CloseIssueTask" -> [h EXCEPT !.CloseIssueTask = Bump(@, t.issue_id[2])]
      [] OTHER -> h

\* a task that re-stages itself stages no new work: only the others count
RECURSIVE Staged(_, _, _)
Staged(h, ts, self) ==
    IF ts = <<>> THEN h
    ELSE Staged(IF Head(ts) = self THEN h ELSE Staged1(h, Head(ts)), Tail(ts), self)

NoRetry == [some |-> FALSE]

NoRemote ==
    [labels |-> {}, label_creates |-> <<>>, issues |-> <<>>, bugs |-> <<>>,
     comments |-> {}, unlabeled |-> {}, closed |-> {}]

NoPre == [state |-> State_default, retry |-> NoRetry, remote |-> NoRemote]

----------------------------------------------------------------------------
(* The snapshot file: State::save, VersionedState::from_path *)

\* (mutant) posted_tasks is skipped too
Serialize_NoPosted(st) ==
    [tasks |-> st.tasks, posted_tasks |-> <<>>,
     handled_wg_comments |-> st.handled_wg_comments,
     handled_decisions_issues |-> st.handled_decisions_issues,
     last_time_wg |-> st.last_time_wg, last_time_decisions |-> st.last_time_decisions]

\* (mutant) the ledgers are skipped too
Serialize_NoLedgers(st) ==
    [tasks |-> st.tasks, posted_tasks |-> st.posted_tasks,
     handled_wg_comments |-> {}, handled_decisions_issues |-> {},
     last_time_wg |-> st.last_time_wg, last_time_decisions |-> st.last_time_decisions]

\* the fields serde writes: known_labels and decisions_repo_id are skipped
Serialize(st) ==
    [tasks |-> st.tasks, posted_tasks |-> st.posted_tasks,
     handled_wg_comments |-> st.handled_wg_comments,
     handled_decisions_issues |-> st.handled_decisions_issues,
     last_time_wg |-> st.last_time_wg, last_time_decisions |-> st.last_time_decisions]

\* writeln!(file, "1") and the document
VERSION == 1

\* a file: its first line (None: the file holds no newline) and the document
\* behind it (None: not a document serde_json can parse)
FileOf(st) == [header |-> Some(Decimal(VERSION)), json |-> Some(Serialize(st))]

\* a file whose writing stopped part-way
PartialFile == [header |-> Some(Decimal(VERSION)), json |-> None]

\* (mutant) the version number is not looked at
from_versioned_str_AnyVersion(version, json) ==
    IF ~json.some THEN Failed
    ELSE Answer([tasks |-> json.val.tasks, posted_tasks |-> json.val.posted_tasks,
                 handled_wg_comments |-> json.val.handled_wg_comments,
                 handled_decisions_issues |-> json.val.handled_decisions_issues,
                 known_labels |-> None, decisions_repo_id |-> None,
                 last_time_wg |-> json.val.last_time_wg,
                 last_time_decisions |-> json.val.last_time_decisions])

from_versioned_str(version, json) ==
    IF version # Decimal(1) THEN Failed
    ELSE IF ~json.some THEN Failed
    ELSE Answer([tasks |-> json.val.tasks, posted_tasks |-> json.val.posted_tasks,
                 handled_wg_comments |-> json.val.handled_wg_comments,
                 handled_decisions_issues |-> json.val.handled_decisions_issues,
                 known_labels |-> None, decisions_repo_id |-> None,
                 last_time_wg |-> json.val.last_time_wg,
                 last_time_decisions |-> json.val.last_time_decisions])

U32_MAX == <<"4", "2", "9", "4", "9", "6", "7", "2", "9", "5">>

\* the value of a decimal digit
DigitValue == [c \in Digits |-> CHOOSE d \in 0..9 : Digit(d) = c]

\* a <= b, for numerals of the same length
RECURSIVE NumeralLeq(_, _)
NumeralLeq(a, b) ==
    IF a = <<>> THEN TRUE
    ELSE IF Head(a) # Head(b) THEN DigitValue[Head(a)] < DigitValue[Head(b)]
    ELSE NumeralLeq(Tail(a), Tail(b))

RECURSIVE StripZeros(_)
StripZeros(ds) ==
    IF Len(ds) > 1 /\ Head(ds) = "0" THEN StripZeros(Tail(ds)) ELSE ds

\* str::parse::<u32>: an optional "+", then one or more decimal digits, no
\* other character, and a value that fits 32 bits.  The value is held as
\* its numeral without leading zeros (2^32 is beyond the checker's integers).
parse_u32(s) ==
    LET ds == IF s # <<>> /\ Head(s) = "+" THEN Tail(s) ELSE s
    IN IF ds = <<>> THEN Failed
       ELSE IF \E i \in DOMAIN ds : ds[i] \notin Digits THEN Failed
       ELSE LET n == StripZeros(ds)
            IN IF Len(n) > Len(U32_MAX) THEN Failed
               ELSE IF Len(n) = Len(U32_MAX) /\ ~NumeralLeq(n, U32_MAX) THEN Failed
               ELSE Answer(n)

from_path(file) ==
    IF ~file.header.some THEN Failed
    ELSE LET version == parse_u32(file.header.val)
         IN IF ~version.ok THEN Failed
            ELSE from_versioned_str(version.val, file.json)

\* (mutant) a state file that cannot be restored is taken for no state file
LoadState_NewOnError(d) ==
    IF d.state.some /\ from_path(d.state.val).ok
    THEN from_path(d.state.val)
    ELSE Answer(State_new(StartDate))

\* the state a run starts from: restored if the file exists, new otherwise
LoadState(d) ==
    IF d.state.some THEN from_path(d.state.val) ELSE Answer(State_new(StartDate))

----------------------------------------------------------------------------
(* Tracker::run *)

RepoConfigs == {RepoConfig}

\* the instances started on the state directory: the tracker whose run is
\* followed step by step, and another one, of which only the lock is seen
TRACKER == "tracker"

ANOTHER == "other"

\* (mutant) the lock is taken whoever holds it
try_lock_Always(instance, holders) == TRUE

\* try_lock_exclusive on the lock file: taken iff no other instance holds it
try_lock(instance, holders) == holders \ {instance} = {}

Init ==
    /\ state = State_default
    /\ repo_config = RepoConfigDefault
    /\ pc = "stopped"
    /\ result = "none"
    /\ exit = "none"
    /\ disk = [state |-> None, temp |-> None]
    /\ remote \in {[NoRemote EXCEPT !.labels = ls] : ls \in RemoteLabelSets}
    /\ executed = NoTask
    /\ resp = Answer(TRUE)
    /\ pre = NoPre
    /\ retry = NoRetry
    /\ hist = NoHist
    /\ diskHist = NoHist
    /\ runs = 0
    /\ lock = {}

\* the process is gone: what it held in memory is lost
Stopped(status) ==
    /\ pc' = "stopped"
    /\ lock' = lock \ {TRACKER}
    /\ exit' = status
    /\ state' = State_default
    /\ repo_config' = RepoConfigDefault
    /\ result' = "none"
    /\ executed' = NoTask
    /\ resp' = Answer(TRUE)
    /\ pre' = NoPre
    /\ hist' = NoHist

\* the repo config cannot be fetched or parsed: run returns the error
RunConfigError ==
    /\ pc = "stopped"
    /\ try_lock(TRACKER, lock)
    /\ exit # "err"
    /\ exit' = "err"
    /\ UNCHANGED <<state, repo_config, pc, result, disk, remote, executed, resp,
                   pre, retry, hist, diskHist, runs, lock>>

\* the state file exists and from_path returns an error (the file cannot be
\* opened or read, or its content is not a snapshot): run returns the error
RunLoadError ==
    /\ pc = "stopped"
    /\ try_lock(TRACKER, lock)
    /\ disk.state.some
    /\ exit # "load_err"
    /\ exit' = "load_err"
    /\ UNCHANGED <<state, repo_config, pc, result, disk, remote, executed, resp,
                   pre, retry, hist, diskHist, runs, lock>>

\* run up to the loop: the repo config, the state, check_for_updates
RunStart ==
    /\ pc = "stopped"
    /\ try_lock(TRACKER, lock)
    /\ lock' = lock \cup {TRACKER}
    /\ runs < MaxRuns
    /\ runs' = runs + 1
    /\ LoadState(disk).ok
    /\ \E cfg \in RepoConfigs : repo_config' = cfg
    /\ state' = check_for_updates(LoadState(disk).val)
    /\ hist' = diskHist
    /\ pc' = "loop"
    /\ exit' = "none"
    /\ UNCHANGED <<result, disk, remote, executed, resp, pre, retry, diskHist>>

\* try_lock returns false: run returns Ok and does nothing else
RunLocked ==
    /\ pc = "stopped"
    /\ ~try_lock(TRACKER, lock)
    /\ exit # "locked"
    /\ exit' = "locked"
    /\ UNCHANGED <<state, repo_config, pc, result, disk, remote, executed, resp,
                   pre, retry, hist, diskHist, runs, lock>>

\* the other instance starts (one more run of the program) and takes the lock
OtherStart ==
    /\ ANOTHER \notin lock
    /\ runs < MaxRuns
    /\ runs' = runs + 1
    /\ try_lock(ANOTHER, lock)
    /\ lock' = lock \cup {ANOTHER}
    /\ UNCHANGED <<state, repo_config, pc, result, exit, disk, remote, executed, resp,
                   pre, retry, hist, diskHist>>

\* the other instance exits: its lock file is closed
OtherExit ==
    /\ ANOTHER \in lock
    /\ lock' = lock \ {ANOTHER}
    /\ UNCHANGED <<state, repo_config, pc, result, exit, disk, remote, executed, resp,
                   pre, retry, hist, diskHist, runs>>

\* one State::iterate of the loop
Iterate ==
    /\ pc = "loop"
    /\ LET task == NextTask(state)
       IN \E r \in Responses(task, remote) :
            LET out == iterate(state, repo_config, r)
            IN /\ state' = out.st
               /\ result' = out.res
               /\ remote' = Apply(remote, out.call)
               /\ executed' = task
               /\ resp' = r
               /\ pre' = [state |-> state, retry |-> retry, remote |-> remote]
               /\ retry' = IF out.res = "err"
                           THEN [some |-> TRUE, task |-> task, staged |-> out.st.posted_tasks]
                           ELSE NoRetry
               /\ hist' = Staged(hist, out.st.posted_tasks, task)
    /\ pc' = "iterated"
    /\ UNCHANGED <<repo_config, exit, disk, diskHist, runs, lock>>

\* (mutant) result? comes before save: a failed step is not saved
Save_ResultFirst ==
    /\ pc = "iterated"
    /\ IF result = "err"
       THEN Stopped("err") /\ UNCHANGED <<disk, diskHist>>
       ELSE /\ disk' = [state |-> Some(FileOf(state)), temp |-> None]
            /\ diskHist' = hist
            /\ IF is_finished(state) THEN Stopped("ok")
               ELSE /\ pc' = "loop"
                    /\ executed' = NoTask
                    /\ resp' = Answer(TRUE)
                    /\ pre' = NoPre
                    /\ UNCHANGED <<state, repo_config, result, exit, hist, lock>>
    /\ UNCHANGED <<remote, retry, runs>>

\* save succeeds; then result?, then is_finished
Save ==
    /\ pc = "iterated"
    /\ disk' = [state |-> Some(FileOf(state)), temp |-> None]
    /\ diskHist' = hist
    /\ IF result = "err" THEN Stopped("err")
       ELSE IF is_finished(state) THEN Stopped("ok")
       ELSE /\ pc' = "loop"
            /\ executed' = NoTask
            /\ resp' = Answer(TRUE)
            /\ pre' = NoPre
            /\ UNCHANGED <<state, repo_config, result, exit, hist, lock>>
    /\ UNCHANGED <<remote, retry, runs>>

\* (mutant) save writes the state file in place, and fails part-way
SaveError_InPlace ==
    /\ pc = "iterated"
    /\ disk' = [disk EXCEPT !.state = Some(PartialFile)]
    /\ Stopped("save_err")
    /\ UNCHANGED <<remote, retry, diskHist, runs>>

\* save fails: the temp file is not created, or is left partly written, or
\* is written but not renamed; run returns the error
SaveError ==
    /\ pc = "iterated"
    /\ \E t \in {disk.temp, Some(PartialFile), Some(FileOf(state))} :
           disk' = [disk EXCEPT !.temp = t]
    /\ Stopped("save_err")
    /\ UNCHANGED <<remote, retry, diskHist, runs>>

\* the process dies: between two steps of the loop, or inside save before
\* the rename (the temp file is then not created, or partly written, or
\* written in full)
Crash ==
    /\ pc \in {"loop", "iterated"}
    /\ \E t \in IF pc = "iterated"
                THEN {disk.temp, Some(PartialFile), Some(FileOf(state))}
                ELSE {disk.temp} :
           disk' = [disk EXCEPT !.temp = t]
    /\ Stopped("crash")
    /\ UNCHANGED <<remote, retry, diskHist, runs>>

Next ==
    \/ RunConfigError \/ RunLoadError \/ RunStart \/ RunLocked \/ Iterate \/ Save
    \/ SaveError \/ Crash \/ OtherStart \/ OtherExit

Spec == Init /\ [][Next]_vars

\* state files that are not snapshots: no newline, so no version line; a
\* version line that is not a number; a version other than 1; a document
\* serde_json cannot parse
BadFiles ==
    {[header |-> None, json |-> None],
     [header |-> Some(<<"v", "1">>), json |-> Some(Serialize(State_new(StartDate)))],
     [header |-> Some(Decimal(2)), json |-> Some(Serialize(State_new(StartDate)))],
     PartialFile}

\* the state directory of the first run holds no state file, or one that
\* this program did not write
LoadInit ==
    /\ state = State_default
    /\ repo_config = RepoConfigDefault
    /\ pc = "stopped"
    /\ result = "none"
    /\ exit = "none"
    /\ disk \in {[state |-> f, temp |-> None] : f \in {None} \cup {Some(b) : b \in BadFiles}}
    /\ remote \in {[NoRemote EXCEPT !.labels = ls] : ls \in RemoteLabelSets}
    /\ executed = NoTask
    /\ resp = Answer(TRUE)
    /\ pre = NoPre
    /\ retry = NoRetry
    /\ hist = NoHist
    /\ diskHist = NoHist
    /\ runs = 0
    /\ lock = {}

LoadSpec == LoadInit /\ [][Next]_vars

\* the steps of the loop, seen from the outside: iterate returns; save ends
\* and the loop goes on or run returns
Iterates == pc = "loop" /\ pc' = "iterated"

Saves == pc = "iterated" /\ pc' \in {"loop", "stopped"}

\* the loop runs on: a process at the loop calls iterate and then save, and
\* both return (no remote call hangs)
LiveSpec == Spec /\ WF_pc(Iterates) /\ WF_pc(Saves)

----------------------------------------------------------------------------
(* main.rs *)

\* what run() returned to main when the process ended by itself: Ok(()) or
\* Err(e); "none" when no process ended that way (it was killed, or none ran)
run_result ==
    CASE exit \in {"ok", "locked"} -> "Ok"
      [] exit \in {"err", "load_err", "save_err"} -> "Err"
      [] OTHER -> "none"

\* fn main: on Err one println! of "[time] error: ..."; main then returns (),
\* so the status of the process is 0 either way
main(r) ==
    [stdout |-> IF r = "Err" THEN <<"error">> ELSE <<>>,
     status |-> 0]

----------------------------------------------------------------------------
(* Properties *)

\* the queue iterate works on: what was staged, then what was pending
QueueOf(st) == st.posted_tasks \o st.tasks

\* the state Task::run receives: the staged tasks merged, the front task popped
RunInput(st) == [st EXCEPT !.tasks = Tail(QueueOf(st)), !.posted_tasks = <<>>]

\* what the executed task did, by itself, to the state iterate started from
RunOutput == run(executed, RunInput(pre.state), repo_config, resp)

Stepped == pc = "iterated" /\ executed # NoTask

Occ(q, t) == Cardinality({i \in DOMAIN q : q[i] = t})

Range(q) == {q[i] : i \in DOMAIN q}

IsPrefix(p, q) == Len(p) <= Len(q) /\ SubSeq(q, 1, Len(p)) = p

RECURSIVE MaxUpdatedAt(_)
MaxUpdatedAt(issues) ==
    IF Len(issues) = 1 THEN issues[1].updated_at
    ELSE Max(issues[1].updated_at, MaxUpdatedAt(Tail(issues)))

\* C1: when the task at the front fails, iterate returns the error, the task
\* is again the first of tasks with the rest of the queue in its previous
\* order, and what the task staged before failing is in posted_tasks.
C1_FailedTaskRequeued ==
    (Stepped /\ RunOutput.res = "err") =>
        /\ result = "err"
        /\ Head(state.tasks) = executed
        /\ state.tasks = QueueOf(pre.state)
        /\ state.posted_tasks = RunOutput.st.posted_tasks

\* a step failed after the task had staged follow-on tasks, with others queued
C1_Witness ==
    /\ Stepped /\ result = "err"
    /\ state.posted_tasks # <<>>
    /\ Len(state.tasks) > 1

\* C2 (as claimed): the step after a failed step on T executes T.
C2_RetriedFirst == (Stepped /\ pre.retry.some) => executed = pre.retry.task

\* C2 (amended): the step after a failed step on T executes T if T staged
\* nothing before failing, or if what it staged was not saved; if T staged
\* follow-on tasks and they were saved, the step executes the first of them,
\* and T is the first of tasks, right behind the staged ones.
C2_RetriedFirstUnlessStaged ==
    (Stepped /\ pre.retry.some) =>
        IF pre.retry.staged # <<>> /\ pre.state.posted_tasks = pre.retry.staged
        THEN /\ executed = Head(pre.retry.staged)
             /\ Head(pre.state.tasks) = pre.retry.task
        ELSE executed = pre.retry.task

\* the run after a failed step executes the failed task again, with success
C2_Witness ==
    /\ Stepped /\ pre.retry.some
    /\ pre.retry.staged = <<>>
    /\ executed = pre.retry.task
    /\ result = "ok"

\* C3: a step that starts with staged tasks works on posted_tasks followed by
\* tasks: it executes the first staged task, leaves the rest of that queue in
\* order (with the task back in front if it failed), and posted_tasks holds
\* only what the executed task staged.
C3_MergeToFront ==
    (Stepped /\ pre.state.posted_tasks # <<>>) =>
        /\ executed = Head(pre.state.posted_tasks)
        /\ state.tasks = IF result = "err" THEN QueueOf(pre.state)
                         ELSE Tail(QueueOf(pre.state))
        /\ state.posted_tasks = RunOutput.st.posted_tasks

\* a step merged several staged tasks in front of a non-empty queue
C3_Witness ==
    /\ Stepped
    /\ Len(pre.state.posted_tasks) >= 2
    /\ pre.state.tasks # <<>>
    /\ result = "ok"

\* C4: an issue number in handled_decisions_issues has had its FileBug,
\* RemoveBugLabel and CloseIssue staged, and a url in handled_wg_comments has
\* had its FileIssueTask staged.
C4_LedgerImpliesStaged ==
    /\ \A n \in state.handled_decisions_issues :
           /\ Count(hist.FileBugForDecisionsIssueTask, n) >= 1
           /\ Count(hist.RemoveDecisionsIssueBugLabelTask, n) >= 1
           /\ Count(hist.CloseIssueTask, n) >= 1
    /\ \A u \in state.handled_wg_comments : Count(hist.FileIssueTask, u) >= 1

\* C5: at most one decision issue is created per comment url and at most one
\* bug is filed per decision issue.
C5_AtMostOneEffect ==
    /\ \A u \in DOMAIN remote.issues : remote.issues[u] <= 1
    /\ \A n \in DOMAIN remote.bugs : remote.bugs[n] <= 1

\* C6 (state part): a step removes no task from the queue but the one it
\* executed with success; the state in memory holds every task of the
\* snapshot it was loaded from or saved to, in order; a run that ends with
\* success leaves an empty queue in the snapshot.
C6_TasksKept ==
    /\ Stepped =>
          \A t \in Range(QueueOf(pre.state)) :
              Occ(QueueOf(state), t) >=
                  Occ(QueueOf(pre.state), t) - (IF t = executed /\ result = "ok" THEN 1 ELSE 0)
    /\ (pc # "stopped" /\ disk.state.some) =>
          LET snapshot == disk.state.val.json.val
              memory == IF pc = "iterated" THEN pre.state ELSE state
          IN /\ memory.posted_tasks = snapshot.posted_tasks
             /\ IsPrefix(snapshot.tasks, memory.tasks)
    /\ (pc = "stopped" /\ exit = "ok") =>
          /\ disk.state.some
          /\ disk.state.val.json.val.tasks = <<>>
          /\ disk.state.val.json.val.posted_tasks = <<>>

FileIssueTasksFor(q, u) ==
    {i \in DOMAIN q : q[i].type = "FileIssueTask" /\ q[i].comment_url = u}

\* C7: at most one FileIssueTask is ever staged for a comment url, at most
\* one is in the queue, and a ProcessWGCommentTask whose url is already in
\* handled_wg_comments stages nothing and succeeds.
C7_OneFileIssuePerUrl ==
    /\ \A u \in DOMAIN hist.FileIssueTask : hist.FileIssueTask[u] <= 1
    /\ \A u \in Urls : Cardinality(FileIssueTasksFor(QueueOf(state), u)) <= 1
    /\ (Stepped /\ executed.type = "ProcessWGCommentTask"
          /\ executed.url \in pre.state.handled_wg_comments) =>
           /\ result = "ok"
           /\ state.posted_tasks = <<>>
           /\ state.handled_wg_comments = pre.state.handled_wg_comments

\* a comment with a resolution is processed again after its url was handled
C7_Witness ==
    /\ Stepped /\ executed.type = "ProcessWGCommentTask"
    /\ executed.url \in pre.state.handled_wg_comments
    /\ Resolutions(lines(executed.body_text)) # <<>>

\* C8: for every decision issue number at most one FileBug, one
\* RemoveBugLabel and one CloseIssue is ever staged.
C8_OneBugPerIssue ==
    /\ \A n \in DOMAIN hist.FileBugForDecisionsIssueTask :
           hist.FileBugForDecisionsIssueTask[n] <= 1
    /\ \A n \in DOMAIN hist.RemoveDecisionsIssueBugLabelTask :
           hist.RemoveDecisionsIssueBugLabelTask[n] <= 1
    /\ \A n \in DOMAIN hist.CloseIssueTask : hist.CloseIssueTask[n] <= 1

\* a poll returns, with the "bug" label, an issue that is already handled
C8_Witness ==
    /\ Stepped /\ executed.type = "QueryDecisionsIssuesTask"
    /\ resp.ok /\ result = "ok"
    /\ \E i \in DOMAIN resp.val :
           /\ resp.val[i].issue_number \in pre.state.handled_decisions_issues
           /\ HasBugLabel(resp.val[i].issue_labels)
           /\ Count(hist.FileBugForDecisionsIssueTask, resp.val[i].issue_number) = 1

\* C9: after a poll that succeeded the watermark is the largest updated_at
\* of the batch, and the watermark before the poll if the batch is empty.
C9_WatermarkIsMax ==
    /\ (Stepped /\ result = "ok" /\ executed.type = "QueryWGIssuesTask") =>
           state.last_time_wg = IF resp.val = <<>> THEN pre.state.last_time_wg
                                ELSE MaxUpdatedAt(resp.val)
    /\ (Stepped /\ result = "ok" /\ executed.type = "QueryDecisionsIssuesTask") =>
           state.last_time_decisions = IF resp.val = <<>> THEN pre.state.last_time_decisions
                                       ELSE MaxUpdatedAt(resp.val)

\* C10: no step decreases a watermark.
C10_WatermarkNeverDecreases ==
    Stepped =>
        /\ state.last_time_wg >= pre.state.last_time_wg
        /\ state.last_time_decisions >= pre.state.last_time_decisions

IsPoll(t) == t.type \in {"QueryWGIssuesTask", "QueryDecisionsIssuesTask"}

\* the tasks QueryDecisionsIssuesTask stages for one issue of its batch
FollowOnStaged(q, issue) ==
    /\ \E i \in DOMAIN q : /\ q[i].type = "FileBugForDecisionsIssueTask"
                            /\ q[i].issue_number = issue.issue_number
    /\ \E i \in DOMAIN q : q[i] = RemoveDecisionsIssueBugLabelTask(issue.id)
    /\ \E i \in DOMAIN q : q[i] = CloseIssueTask(issue.id)

\* C11: a poll that returns an error leaves its watermark as it was, and a
\* poll that moved its watermark has staged the follow-on tasks of every
\* issue of its batch (of every issue with the "bug" label that was not
\* handled before, for the decisions repository).
C11_WatermarkAfterStaging ==
    (Stepped /\ IsPoll(executed)) =>
        /\ result = "err" =>
               /\ state.last_time_wg = pre.state.last_time_wg
               /\ state.last_time_decisions = pre.state.last_time_decisions
        /\ (executed.type = "QueryWGIssuesTask" /\ resp.ok /\ resp.val # <<>>) =>
               state.posted_tasks = WGCommentsTasks(executed, resp.val)
        /\ (executed.type = "QueryDecisionsIssuesTask" /\ resp.ok /\ resp.val # <<>>) =>
               \A i \in DOMAIN resp.val :
                   (/\ HasBugLabel(resp.val[i].issue_labels)
                    /\ resp.val[i].issue_number \notin pre.state.handled_decisions_issues)
                   => FollowOnStaged(state.posted_tasks, resp.val[i])

Ledgers(st) ==
    [comments |-> st.handled_wg_comments, issues |-> st.handled_decisions_issues]

LedgersLeq(a, b) == a.comments \subseteq b.comments /\ a.issues \subseteq b.issues

\* the ledgers of the snapshot on disk (empty before the first save)
DiskLedgers ==
    IF disk.state.some THEN Ledgers(disk.state.val.json.val) ELSE Ledgers(State_default)

\* the ledgers of the engine: of the running process, of the snapshot otherwise
EngineLedgers == IF pc = "stopped" THEN DiskLedgers ELSE Ledgers(state)

\* C12 (as claimed): an element once in a ledger is in it in all later states.
C12_LedgersOnlyGrow == [][LedgersLeq(EngineLedgers, EngineLedgers')]_vars

\* C12 (amended): no step of a run removes an element from a ledger, a failed
\* step included; a save writes the ledgers of the state, which hold those of
\* the snapshot before; a restore yields the ledgers of the snapshot.  (What
\* a step added is lost when the process ends before the save succeeds.)
C12_SavedLedgersOnlyGrow ==
    [][/\ (pc # "stopped" /\ pc' # "stopped") => LedgersLeq(Ledgers(state), Ledgers(state'))
       /\ LedgersLeq(DiskLedgers, DiskLedgers')
       /\ (disk'.state # disk.state) => DiskLedgers' = Ledgers(state)
       /\ (pc = "stopped" /\ pc' = "loop") => Ledgers(state') = DiskLedgers]_vars

\* a run restored both ledgers, non-empty, from the snapshot of a failed run
C12_Witness ==
    /\ pc = "loop" /\ runs >= 2 /\ exit = "none"
    /\ retry.some
    /\ state.handled_wg_comments # {}
    /\ state.handled_decisions_issues # {}
    /\ Ledgers(state) = DiskLedgers

\* C13: is_finished is true exactly when tasks and posted_tasks hold no task;
\* on a finished state iterate returns Ok, runs nothing and changes nothing,
\* so the state stays finished; check_for_updates ends that.
C13_FinishedStable ==
    pc # "stopped" =>
        /\ is_finished(state) <=> (Len(state.tasks) + Len(state.posted_tasks) = 0)
        /\ is_finished(state) =>
               \A r \in {Failed, Answer(TRUE)} :
                   LET out == iterate(state, repo_config, r)
                   IN /\ out.res = "ok"
                      /\ out.call = NoCall
                      /\ out.st = state
                      /\ is_finished(out.st)
        /\ ~is_finished(check_for_updates(state))

\* the last task of the queue was executed and staged nothing
C13_Witness == Stepped /\ result = "ok" /\ is_finished(state)

\* C14: after every iterate the run saves the state before it looks at the
\* result: the loop goes on, or the run returns Ok, only with the state of
\* that step in the snapshot; after a failed step the run goes on to no other
\* task, and it returns the step's error with the state of the failed step in
\* the snapshot (unless the save itself fails, or the process dies).
C14_SaveThenResult ==
    [][pc = "iterated" =>
          /\ pc' \in {"loop", "stopped"}
          /\ pc' = "loop" =>
                 /\ result = "ok" /\ ~is_finished(state)
                 /\ disk'.state = Some(FileOf(state))
                 /\ state' = state
          /\ (pc' = "stopped" /\ exit' = "ok") =>
                 /\ result = "ok" /\ is_finished(state)
                 /\ disk'.state = Some(FileOf(state))
          /\ result = "err" =>
                 /\ pc' = "stopped"
                 /\ exit' \in {"err", "save_err", "crash"}
                 /\ exit' = "err" => disk'.state = Some(FileOf(state))
                 /\ exit' # "err" => disk'.state = disk.state]_vars

\* a run returned the error of a step that had staged tasks, after saving the
\* failed task and what it staged
C14_Witness ==
    /\ pc = "stopped" /\ exit = "err"
    /\ retry.some /\ retry.staged # <<>>
    /\ disk.state.some
    /\ Head(disk.state.val.json.val.tasks) = retry.task
    /\ disk.state.val.json.val.posted_tasks = retry.staged

Headers ==
    {None, Some(<<>>), Some(<<"1">>), Some(<<"0", "1">>), Some(<<"+", "1">>),
     Some(<<"0">>), Some(<<"2">>), Some(<<"1", "1">>), Some(<<"-", "1">>),
     Some(<<"+">>), Some(<<"1", " ">>), Some(<<" ", "1">>), Some(<<"1", "\r">>),
     Some(<<"v", "1">>), Some(<<"1", ".", "0">>),
     Some(<<"4", "2", "9", "4", "9", "6", "7", "2", "9", "5">>),
     Some(<<"4", "2", "9", "4", "9", "6", "7", "2", "9", "7">>)}

\* the first lines that are the decimal number 1
HeadersOne == {<<"1">>, <<"0", "1">>, <<"+", "1">>}

\* C19: a state file restores only if its first line is the version number
\* 1 and a document that parses follows; with another version number, with
\* no newline, or with a first line that is no decimal number, from_path
\* returns an error and no state.
C19_OnlyVersionOne ==
    pc = "iterated" =>
        LET document == Some(Serialize(state))
            restored == from_path(FileOf(state))
        IN /\ \A h \in Headers :
                  LET r == from_path([header |-> h, json |-> document])
                  IN IF h.some /\ h.val \in HeadersOne
                     THEN r.ok /\ r = restored
                     ELSE r = Failed
           /\ from_path(PartialFile) = Failed

\* a run restored a snapshot that holds tasks; the same snapshot under
\* version 2 does not restore
C19_Witness ==
    /\ pc = "loop" /\ runs >= 2
    /\ disk.state.some
    /\ disk.state.val.json.val.posted_tasks # <<>>
    /\ from_path(disk.state.val).ok
    /\ ~from_path([disk.state.val EXCEPT !.header = Some(<<"2">>)]).ok

\* what a task that only deferred left behind: nothing but the loader and
\* the task itself staged, in that order
Deferred(loader) ==
    /\ result = "ok"
    /\ RunOutput.call = NoCall
    /\ remote = pre.remote
    /\ state.posted_tasks = <<loader, executed>>
    /\ state = [RunInput(pre.state) EXCEPT !.posted_tasks = <<loader, executed>>]

\* C16: EnsureLabelTask, FileIssueTask and RemoveDecisionsIssueBugLabelTask
\* run without known_labels, and the first two run with known_labels but
\* without decisions_repo_id, make no remote call, stage the loader of what
\* is missing and then themselves, and return Ok.
C16_DeferredWhenCacheAbsent ==
    Stepped =>
        /\ (/\ executed.type \in {"EnsureLabelTask", "FileIssueTask",
                                  "RemoveDecisionsIssueBugLabelTask"}
            /\ ~pre.state.known_labels.some)
           => Deferred(QueryDecisionsKnownLabelsTask)
        /\ (/\ executed.type \in {"EnsureLabelTask", "FileIssueTask"}
            /\ pre.state.known_labels.some
            /\ ~pre.state.decisions_repo_id.some)
           => Deferred(QueryDecisionsRepoID)

\* an EnsureLabelTask ran with the labels loaded and the repository id not
C16_Witness ==
    /\ Stepped /\ executed.type = "EnsureLabelTask"
    /\ pre.state.known_labels.some
    /\ ~pre.state.decisions_repo_id.some
    /\ state.posted_tasks = <<QueryDecisionsRepoID, executed>>

\* C17: an EnsureLabelTask that finds no known_labels (as after every
\* restore) puts the label loader in front of itself, and no EnsureLabelTask
\* calls create_label for a name the decisions repository already has: no
\* label is created twice, also when a run died after creating it.
C17_NoRecreatedLabel ==
    /\ \A name \in DOMAIN remote.label_creates : remote.label_creates[name] <= 1
    /\ (Stepped /\ RunOutput.call.op = "create_label") =>
           /\ RunOutput.call.name \notin pre.remote.labels
           /\ pre.state.known_labels.some
    /\ (Stepped /\ executed.type = "EnsureLabelTask" /\ ~pre.state.known_labels.some) =>
           /\ Len(QueueOf(state)) >= 2
           /\ QueueOf(state)[1] = QueryDecisionsKnownLabelsTask
           /\ QueueOf(state)[2] = executed

\* a later run completes, with the labels loaded, an EnsureLabelTask whose
\* label an earlier run had created
C17_Witness ==
    /\ Stepped /\ executed.type = "EnsureLabelTask" /\ runs >= 2
    /\ pre.state.known_labels.some /\ pre.state.decisions_repo_id.some
    /\ executed.name \in pre.remote.labels
    /\ Count(remote.label_creates, executed.name) = 1
    /\ result = "ok" /\ RunOutput.call = NoCall

\* C18: the state file is absent or a complete snapshot at every instant,
\* whatever happens to the temp file; it changes only by the rename of a
\* save that succeeds, from the previous snapshot to the one of the state
\* saved, and a save that fails or a process that dies leaves it as it was.
C18_AtomicSnapshot ==
    /\ [](disk.state.some => (disk.state.val.json.some /\ from_path(disk.state.val).ok))
    /\ [][/\ (disk'.state # disk.state) =>
                 /\ pc = "iterated"
                 /\ disk'.state = Some(FileOf(state))
                 /\ disk'.temp = None
                 /\ exit' \notin {"save_err", "crash"}
          /\ (exit' \in {"save_err", "crash"}) => disk'.state = disk.state]_vars

\* a process died inside save with the temp file partly written, next to
\* the snapshot of an earlier save
C18_Witness ==
    /\ pc = "stopped" /\ exit = "crash"
    /\ disk.temp = Some(PartialFile)
    /\ disk.state.some
    /\ from_path(disk.state.val).ok

\* C20: at most one instance is past try_lock at any time; the tracker holds
\* the lock from try_lock until its process is gone; and while the other
\* instance holds the lock a run of the tracker returns Ok without loading
\* the state, executing a task or writing a file.
C20_OneInstance ==
    /\ [](/\ Cardinality(lock) <= 1
          /\ pc # "stopped" <=> TRACKER \in lock)
    /\ [][/\ (TRACKER \in lock /\ TRACKER \notin lock') => pc' = "stopped"
          /\ (pc = "stopped" /\ ANOTHER \in lock) =>
                 /\ pc' = "stopped" /\ exit' \in {exit, "locked"}
                 /\ state' = state /\ disk' = disk /\ remote' = remote
                 /\ runs' = runs]_vars

\* a run of the tracker found the lock held by the other instance, with a
\* snapshot that holds tasks
C20_Witness ==
    /\ pc = "stopped" /\ exit = "locked" /\ lock = {ANOTHER}
    /\ disk.state.some
    /\ disk.state.val.json.val.tasks # <<>>

\* C21: when the run ends with an error (of the configuration, of a save or
\* of a step) the process prints one line and exits with a non-zero status;
\* it exits with status zero only when the run returned success.
C21_ExitStatus ==
    (pc = "stopped" /\ run_result # "none") =>
        LET m == main(run_result)
        IN /\ run_result = "Err" => (Len(m.stdout) = 1 /\ m.status # 0)
           /\ run_result = "Ok" => (m.stdout = <<>> /\ m.status = 0)
           /\ m.status = 0 => run_result = "Ok"

\* comment bodies with the resolutions expected of each: the body of the
\* documented scenario, then bodies without a marker, without a final
\* newline, with "\r\n" line ends, with the marker inside a line, in lower
\* case, without its blank, alone on its line, and twice on a line
BodyCases ==
    {[body |-> <<"S", "o", "m", "e", " ", "t", "e", "x", "t", "\n", "R", "E", "S", "O",
               "L", "V", "E", "D", ":", " ", "U", "s", "e", " ", "U", "T", "F", "-", "8",
               "\n", "R", "E", "S", "O", "L", "V", "E", "D", ":", " ", "R", "e", "j",
               "e", "c", "t", " ", "n", "u", "l", "l", "s", "\n">>,
      resolutions |-> <<<<"U", "s", "e", " ", "U", "T", "F", "-", "8">>, <<"R", "e", "j", "e", "c", "t", " ", "n", "u", "l", "l", "s">>>>],
     [body |-> <<>>,
      resolutions |-> <<>>],
     [body |-> <<"n", "o", " ", "m", "a", "r", "k", "e", "r">>,
      resolutions |-> <<>>],
     [body |-> <<"R", "E", "S", "O", "L", "V", "E", "D", ":", " ", "a">>,
      resolutions |-> <<<<"a">>>>],
     [body |-> <<"R", "E", "S", "O", "L", "V", "E", "D", ":", " ", "b", "\n", "x", "\n",
               "R", "E", "S", "O", "L", "V", "E", "D", ":", " ", "a", "\n">>,
      resolutions |-> <<<<"b">>, <<"a">>>>],
     [body |-> <<"R", "E", "S", "O", "L", "V", "E", "D", ":", " ", "a", "\r", "\n", "R",
               "E", "S", "O", "L", "V", "E", "D", ":", " ", "b", "\r", "\n">>,
      resolutions |-> <<<<"a">>, <<"b">>>>],
     [body |-> <<"x", " ", "R", "E", "S", "O", "L", "V", "E", "D", ":", " ", "a", "\n">>,
      resolutions |-> <<>>],
     [body |-> <<" ", "R", "E", "S", "O", "L", "V", "E", "D", ":", " ", "a", "\n">>,
      resolutions |-> <<>>],
     [body |-> <<"r", "e", "s", "o", "l", "v", "e", "d", ":", " ", "a", "\n">>,
      resolutions |-> <<>>],
     [body |-> <<"R", "E", "S", "O", "L", "V", "E", "D", ":", "a", "\n">>,
      resolutions |-> <<>>],
     [body |-> <<"R", "E", "S", "O", "L", "V", "E", "D", ":", " ", "\n">>,
      resolutions |-> <<<<>>>>],
     [body |-> <<"R", "E", "S", "O", "L", "V", "E", "D", ":", " ", "R", "E", "S", "O",
               "L", "V", "E", "D", ":", " ", "a", "\n", "\n", "R", "E", "S", "O", "L",
               "V", "E", "D", ":", " ", " ", "a", "\n">>,
      resolutions |-> <<<<"R", "E", "S", "O", "L", "V", "E", "D", ":", " ", "a">>, <<" ", "a">>>>]}

\* the lines of a body that begin with the marker, in their order, without it
MarkerLines(body) ==
    LET marked == SelectSeq(lines(body), LAMBDA l : starts_with(l, PREFIX))
    IN [i \in DOMAIN marked |-> strip_prefix(marked[i], PREFIX)]

\* what ProcessWGCommentTask stages last for a comment not handled before
StagedFileIssue(body) ==
    LET self == ProcessWGCommentTask(42, WGTitle, WGLabels, URL1, body)
        posted == ProcessWGCommentTask_run(self, State_new(StartDate), RepoConfig).st.posted_tasks
    IN IF posted = <<>> THEN NoTask ELSE posted[Len(posted)]

\* C22: the resolutions of ProcessWGCommentTask are the lines of body_text
\* that begin with "RESOLVED: ", in their order, each without the marker, and
\* the staged FileIssueTask carries them; the scenario's body gives
\* ["Use UTF-8", "Reject nulls"].
C22_Resolutions ==
    (Stepped /\ executed.type = "ProcessWGCommentTask") =>
        /\ LET posted == RunOutput.st.posted_tasks
           IN posted # <<>> =>
                  /\ posted[Len(posted)].type = "FileIssueTask"
                  /\ posted[Len(posted)].resolutions = MarkerLines(executed.body_text)
        /\ \A c \in BodyCases :
               /\ Resolutions(lines(c.body)) = c.resolutions
               /\ MarkerLines(c.body) = c.resolutions
               /\ IF c.resolutions = <<>> THEN StagedFileIssue(c.body) = NoTask
                  ELSE /\ StagedFileIssue(c.body).type = "FileIssueTask"
                       /\ StagedFileIssue(c.body).resolutions = c.resolutions

\* a comment with a resolution was processed and its FileIssueTask staged
C22_Witness ==
    /\ Stepped /\ executed.type = "ProcessWGCommentTask"
    /\ executed.body_text = Comment1.body_text
    /\ state.posted_tasks # <<>>
    /\ state.posted_tasks[Len(state.posted_tasks)].type = "FileIssueTask"
    /\ state.posted_tasks[Len(state.posted_tasks)].resolutions = <<<<"U">>>>

\* issue titles and resolutions with the lines expected in the issue body:
\* the documented scenario, every character escape_markdown rewrites, and
\* no resolution at all
IssueBodyCases ==
    {[title |-> <<"E", "n", "c", "o", "d", "i", "n", "g">>,
      resolutions |-> <<<<"U", "s", "e", " ", "U", "T", "F", "-", "8">>, <<"R", "e", "j",
                        "e", "c", "t", " ", "n", "u", "l", "l", "s">>>>,
      title_line |-> <<"*", "*", "E", "n", "c", "o", "d", "i", "n", "g", "*", "*">>,
      lines |-> <<<<"*", " ", "R", "E", "S", "O", "L", "V", "E", "D", ":", " ", "U", "s",
                  "e", " ", "U", "T", "F", "\\", "-", "8">>, <<"*", " ", "R", "E", "S",
                  "O", "L", "V", "E", "D", ":", " ", "R", "e", "j", "e", "c", "t", " ",
                  "n", "u", "l", "l", "s">>>>],
     [title |-> <<"a", "_", "b", " ", "<", "c", ">">>,
      resolutions |-> <<<<"x", "|", "y", " ", "&", " ", "[", "z", "]", " ", "#", "1",
                        " ", "grave", "q", "grave", " ", "\\", " ", "(", "p", ")", " ",
                        "*", " ", "+">>>>,
      title_line |-> <<"*", "*", "a", "\\", "_", "b", " ", "&", "l", "t", ";", "c", "&",
                    "g", "t", ";", "*", "*">>,
      lines |-> <<<<"*", " ", "R", "E", "S", "O", "L", "V", "E", "D", ":", " ", "x", "&",
                  "1", "2", "4", ";", "y", " ", "&", "a", "m", "p", ";", " ", "\\", "[",
                  "z", "\\", "]", " ", "\\", "#", "1", " ", "\\", "grave", "q", "\\",
                  "grave", " ", "\\", "\\", " ", "\\", "(", "p", "\\", ")", " ", "\\",
                  "*", " ", "\\", "+">>>>],
     [title |-> <<"T">>,
      resolutions |-> <<>>,
      title_line |-> <<"*", "*", "T", "*", "*">>,
      lines |-> <<>>]}

\* the scenario's resolution lines as the claim writes them, not escaped
UnescapedLines ==
    <<<<"*", " ", "R", "E", "S", "O", "L", "V", "E", "D", ":", " ", "U", "s", "e", " ",
      "U", "T", "F", "-", "8">>, <<"*", " ", "R", "E", "S", "O", "L", "V", "E", "D", ":",
      " ", "R", "e", "j", "e", "c", "t", " ", "n", "u", "l", "l", "s">>>>

STAR_RESOLVED == <<"*", " ">> \o PREFIX

\* the "* RESOLVED: " lines of an issue body, in their order
ResolvedLines(body) ==
    SelectSeq(lines(body), LAMBDA l : starts_with(l, STAR_RESOLVED))

\* the body FileIssueTask::run builds for a title and resolutions
BodyFor(title, resolutions) ==
    IssueBody(FileIssueTask(42, title, <<>>, URL1, resolutions))

\* C23 (as stated): for the title "Encoding" and the resolutions "Use UTF-8"
\* and "Reject nulls" the body of the created issue holds the lines
\* "* RESOLVED: Use UTF-8", "* RESOLVED: Reject nulls" and "**Encoding**".
C23_BodyLines ==
    (Stepped /\ executed.type = "FileIssueTask") =>
        \A c \in IssueBodyCases :
            c.title = <<"E", "n", "c", "o", "d", "i", "n", "g">> =>
                LET body == BodyFor(c.title, c.resolutions)
                IN /\ ResolvedLines(body) = UnescapedLines
                   /\ c.title_line \in Range(lines(body))

\* C23 (amended): the body of the created issue holds the line "**title**"
\* with the title escaped and one "* RESOLVED: " line per resolution, in
\* order, with the resolution escaped by escape_markdown; for the scenario
\* the lines are "* RESOLVED: Use UTF\-8", "* RESOLVED: Reject nulls" and
\* "**Encoding**".
C23_EscapedBodyLines ==
    (Stepped /\ executed.type = "FileIssueTask") =>
        /\ RunOutput.call.op = "create_issue" =>
               /\ ResolvedLines(RunOutput.call.body) =
                      [i \in DOMAIN executed.resolutions |->
                          STAR_RESOLVED \o escape_markdown(executed.resolutions[i])]
               /\ (<<"*", "*">> \o escape_markdown(executed.issue_title) \o <<"*", "*">>)
                      \in Range(lines(RunOutput.call.body))
        /\ \A c \in IssueBodyCases :
               LET body == BodyFor(c.title, c.resolutions)
               IN /\ ResolvedLines(body) = c.lines
                  /\ c.title_line \in Range(lines(body))

\* an issue was created for a title that needs escaping
C23_Witness ==
    /\ Stepped /\ executed.type = "FileIssueTask"
    /\ RunOutput.call.op = "create_issue"
    /\ remote.issues # pre.remote.issues
    /\ <<"*", "*", "E", "\\", "*", "*", "*">> \in Range(lines(RunOutput.call.body))
    /\ ResolvedLines(RunOutput.call.body) = <<STAR_RESOLVED \o <<"U">>>>

\* label names of a decision issue and a component map, with the product and
\* component (or the failure) expected of them: the documented scenario, an
\* id without suffix, no map, no match, no "[spec] " label, the default entry
\* for no match and for two matches, two matches without default, an id with
\* hyphens inside, entries that do not split in two, a key that ends in a digit
ComponentCases ==
    <<[labels |-> <<<<"b", "u", "g">>, <<"[", "s", "p", "e", "c", "]", " ", "w", "i", "d",
                "g", "e", "t", "-", "1", "2">>>>,
      components |-> Some((<<"w", "i", "d", "g", "e", "t">> :> <<"W", "i", "d", "g", "e",
                    "t", "s", " ", ":", ":", " ", "C", "o", "r", "e">>)),
      expected |-> Answer(<<<<"W", "i", "d", "g", "e", "t", "s">>, <<"C", "o", "r",
                  "e">>>>)],
     [labels |-> <<<<"b", "u", "g">>, <<"[", "s", "p", "e", "c", "]", " ", "w", "i", "d",
                "g", "e", "t">>>>,
      components |-> Some((<<"w", "i", "d", "g", "e", "t">> :> <<"W", "i", "d", "g", "e",
                    "t", "s", " ", ":", ":", " ", "C", "o", "r", "e">>)),
      expected |-> Answer(<<<<"W", "i", "d", "g", "e", "t", "s">>, <<"C", "o", "r",
                  "e">>>>)],
     [labels |-> <<<<"[", "s", "p", "e", "c", "]", " ", "w", "i", "d", "g", "e", "t", "-",
                "1", "2">>, <<"b", "u", "g">>, <<"o", "t", "h", "e", "r">>>>,
      components |-> Some((<<"w", "i", "d", "g", "e", "t">> :> <<"W", "i", "d", "g", "e",
                    "t", "s", " ", ":", ":", " ", "C", "o", "r", "e">>)),
      expected |-> Answer(<<<<"W", "i", "d", "g", "e", "t", "s">>, <<"C", "o", "r",
                  "e">>>>)],
     [labels |-> <<<<"b", "u", "g">>, <<"[", "s", "p", "e", "c", "]", " ", "w", "i", "d",
                "g", "e", "t", "-", "1", "2">>>>,
      components |-> None,
      expected |-> Answer(<<<<"I", "n", "v", "a", "l", "i", "d", " ", "B", "u", "g",
                  "s">>, <<"G", "e", "n", "e", "r", "a", "l">>>>)],
     [labels |-> <<<<"b", "u", "g">>>>,
      components |-> Some((<<"w", "i", "d", "g", "e", "t">> :> <<"W", "i", "d", "g", "e",
                    "t", "s", " ", ":", ":", " ", "C", "o", "r", "e">>)),
      expected |-> Answer(<<<<"I", "n", "v", "a", "l", "i", "d", " ", "B", "u", "g",
                  "s">>, <<"G", "e", "n", "e", "r", "a", "l">>>>)],
     [labels |-> <<<<"b", "u", "g">>, <<"s", "p", "e", "c", " ", "w", "i", "d", "g", "e",
                "t">>>>,
      components |-> Some((<<"w", "i", "d", "g", "e", "t">> :> <<"W", "i", "d", "g", "e",
                    "t", "s", " ", ":", ":", " ", "C", "o", "r", "e">>)),
      expected |-> Answer(<<<<"I", "n", "v", "a", "l", "i", "d", " ", "B", "u", "g",
                  "s">>, <<"G", "e", "n", "e", "r", "a", "l">>>>)],
     [labels |-> <<<<"b", "u", "g">>, <<"[", "s", "p", "e", "c", "]", " ", "g", "a", "d",
                "g", "e", "t", "-", "1">>>>,
      components |-> Some((<<"w", "i", "d", "g", "e", "t">> :> <<"W", "i", "d", "g", "e",
                    "t", "s", " ", ":", ":", " ", "C", "o", "r", "e">>)),
      expected |-> Answer(<<<<"I", "n", "v", "a", "l", "i", "d", " ", "B", "u", "g",
                  "s">>, <<"G", "e", "n", "e", "r", "a", "l">>>>)],
     [labels |-> <<<<"b", "u", "g">>, <<"[", "s", "p", "e", "c", "]", " ", "1", "2">>>>,
      components |-> Some((<<"w", "i", "d", "g", "e", "t">> :> <<"W", "i", "d", "g", "e",
                    "t", "s", " ", ":", ":", " ", "C", "o", "r", "e">>)),
      expected |-> Answer(<<<<"I", "n", "v", "a", "l", "i", "d", " ", "B", "u", "g",
                  "s">>, <<"G", "e", "n", "e", "r", "a", "l">>>>)],
     [labels |-> <<<<"b", "u", "g">>>>,
      components |-> Some((<<"w", "i", "d", "g", "e", "t">> :> <<"W", "i", "d", "g", "e",
                    "t", "s", " ", ":", ":", " ", "C", "o", "r", "e">>) @@ (<<"d", "e",
                    "f", "a", "u", "l", "t">> :> <<"D", " ", ":", ":", " ", "E">>)),
      expected |-> Answer(<<<<"D">>, <<"E">>>>)],
     [labels |-> <<<<"b", "u", "g">>, <<"[", "s", "p", "e", "c", "]", " ", "w", "i", "d",
                "g", "e", "t", "-", "1">>, <<"[", "s", "p", "e", "c", "]", " ", "w", "i",
                "d", "g", "e", "t", "-", "2">>>>,
      components |-> Some((<<"w", "i", "d", "g", "e", "t">> :> <<"W", "i", "d", "g", "e",
                    "t", "s", " ", ":", ":", " ", "C", "o", "r", "e">>) @@ (<<"d", "e",
                    "f", "a", "u", "l", "t">> :> <<"D", " ", ":", ":", " ", "E">>)),
      expected |-> Answer(<<<<"D">>, <<"E">>>>)],
     [labels |-> <<<<"b", "u", "g">>, <<"[", "s", "p", "e", "c", "]", " ", "w", "i", "d",
                "g", "e", "t", "-", "1">>, <<"[", "s", "p", "e", "c", "]", " ", "c", "s",
                "s", "-", "g", "r", "i", "d", "-", "2">>>>,
      components |-> Some((<<"w", "i", "d", "g", "e", "t">> :> <<"W", "i", "d", "g", "e",
                    "t", "s", " ", ":", ":", " ", "C", "o", "r", "e">>) @@ (<<"c", "s",
                    "s", "-", "g", "r", "i", "d">> :> <<"C", " ", ":", ":", " ", "G">>)),
      expected |-> Answer(<<<<"I", "n", "v", "a", "l", "i", "d", " ", "B", "u", "g",
                  "s">>, <<"G", "e", "n", "e", "r", "a", "l">>>>)],
     [labels |-> <<<<"b", "u", "g">>, <<"[", "s", "p", "e", "c", "]", " ", "c", "s", "s",
                "-", "g", "r", "i", "d", "-", "2">>>>,
      components |-> Some((<<"w", "i", "d", "g", "e", "t">> :> <<"W", "i", "d", "g", "e",
                    "t", "s", " ", ":", ":", " ", "C", "o", "r", "e">>) @@ (<<"c", "s",
                    "s", "-", "g", "r", "i", "d">> :> <<"C", " ", ":", ":", " ", "G">>)),
      expected |-> Answer(<<<<"C">>, <<"G">>>>)],
     [labels |-> <<<<"b", "u", "g">>, <<"[", "s", "p", "e", "c", "]", " ", "w", "i", "d",
                "g", "e", "t", "-", "1">>>>,
      components |-> Some((<<"w", "i", "d", "g", "e", "t">> :> <<"W", ":",
                    "C">>) @@ (<<"d", "e", "f", "a", "u", "l", "t">> :> <<"D", " ", ":",
                    ":", " ", "E">>)),
      expected |-> Failed],
     [labels |-> <<<<"b", "u", "g">>>>,
      components |-> Some((<<"w", "i", "d", "g", "e", "t">> :> <<"W", "i", "d", "g", "e",
                    "t", "s", " ", ":", ":", " ", "C", "o", "r", "e">>) @@ (<<"d", "e",
                    "f", "a", "u", "l", "t">> :> <<"A", " ", ":", ":", " ", "B", " ",
                    ":", ":", " ", "C">>)),
      expected |-> Failed],
     [labels |-> <<<<"b", "u", "g">>, <<"[", "s", "p", "e", "c", "]", " ", "w", "i", "d",
                "g", "e", "t", "-", "1">>>>,
      components |-> Some((<<"w", "i", "d", "g", "e", "t">> :> <<"W", "i", "d", "g", "e",
                    "t", "s", " ", ":", ":", " ", "C", "o", "r", "e">>) @@ (<<"d", "e",
                    "f", "a", "u", "l", "t">> :> <<"A", " ", ":", ":", " ", "B", " ",
                    ":", ":", " ", "C">>)),
      expected |-> Answer(<<<<"W", "i", "d", "g", "e", "t", "s">>, <<"C", "o", "r",
                  "e">>>>)],
     [labels |-> <<<<"b", "u", "g">>, <<"[", "s", "p", "e", "c", "]", " ", "w", "i", "d",
                "g", "e", "t", "-", "1">>>>,
      components |-> Some((<<"w", "i", "d", "g", "e", "t">> :> <<" ", ":", ":", " ">>)),
      expected |-> Answer(<<<<>>, <<>>>>)],
     [labels |-> <<<<"b", "u", "g">>, <<"[", "s", "p", "e", "c", "]", " ", "c", "s", "s",
                "2">>>>,
      components |-> Some((<<"c", "s", "s", "2">> :> <<"C", " ", ":", ":", " ", "G">>)),
      expected |-> Answer(<<<<"I", "n", "v", "a", "l", "i", "d", " ", "B", "u", "g",
                  "s">>, <<"G", "e", "n", "e", "r", "a", "l">>>>)]>>

\* the issue of a batch with the given number
IssueOf(issues, number) ==
    issues[CHOOSE i \in DOMAIN issues : issues[i].issue_number = number]

\* the "[spec] <id>" labels whose id, without its trailing digits and
\* hyphens, is a key of the component map
SpecMatches(labels, cfg) ==
    SelectSeq(labels,
              LAMBDA l : /\ starts_with(l.name, SPEC_PREFIX)
                         /\ cfg.components.some
                         /\ StripSpecSuffix(strip_prefix(l.name, SPEC_PREFIX))
                                \in DOMAIN cfg.components.val)

\* the first poll of a new state, for each case: its batch is one issue
\* with the labels of the case, its component map that of the case
ComponentPolls ==
    [k \in DOMAIN ComponentCases |->
        LET c == ComponentCases[k]
            labels == [i \in DOMAIN c.labels |-> [name |-> c.labels[i], color |-> "c0"]]
            cfg == [labels |-> None, components |-> c.components]
        IN QueryDecisionsIssuesTask_run(QueryDecisionsIssuesTask(DecisionsStart),
               State_new(StartDate), cfg, Answer(<<DecIssue(3, MaxTime, labels)>>))]

\* C24: the product and component of a bug-labelled decision issue are those
\* of the one "[spec] <id>" label whose id, without trailing digits and
\* hyphens, is in the component map; with no or several such labels those of
\* the map's "default" entry if there is one, else ("Invalid Bugs",
\* "General"); the step fails when the chosen entry does not split in two on
\* " :: ".  ["bug", "[spec] widget-12"] with {"widget": "Widgets :: Core"}
\* gives ("Widgets", "Core").
C24_ProductComponent ==
    (Stepped /\ executed.type = "QueryDecisionsIssuesTask") =>
        /\ \A i \in DOMAIN RunOutput.st.posted_tasks :
               LET task == RunOutput.st.posted_tasks[i]
               IN task.type = "FileBugForDecisionsIssueTask" =>
                      LET labels == IssueOf(resp.val, task.issue_number).issue_labels
                          matches == SpecMatches(labels, repo_config)
                          entry == IF Len(matches) = 1
                                   THEN repo_config.components.val[
                                            StripSpecSuffix(strip_prefix(matches[1].name,
                                                                         SPEC_PREFIX))]
                                   ELSE IF repo_config.components.some
                                           /\ DEFAULT \in DOMAIN repo_config.components.val
                                        THEN repo_config.components.val[DEFAULT]
                                        ELSE INVALID_BUGS[1] \o COMPONENT_SEP \o INVALID_BUGS[2]
                      IN <<task.product, task.component>> = split(entry, COMPONENT_SEP)
        /\ \A k \in DOMAIN ComponentCases :
               LET c == ComponentCases[k]
                   polled == ComponentPolls[k]
               IN IF c.expected.ok
                  THEN polled.res = "ok"
                       /\ polled.st.posted_tasks =
                              <<FileBugForDecisionsIssueTask(c.expected.val[1],
                                    c.expected.val[2], 3, IssueId(3)),
                                RemoveDecisionsIssueBugLabelTask(IssueId(3)),
                                CloseIssueTask(IssueId(3))>>
                  ELSE polled.res = "err"

\* a poll staged the bug of an issue whose label "[spec] w-1" is in the map
C24_Witness ==
    /\ Stepped /\ executed.type = "QueryDecisionsIssuesTask"
    /\ result = "ok"
    /\ \E i \in DOMAIN state.posted_tasks :
           /\ state.posted_tasks[i].type = "FileBugForDecisionsIssueTask"
           /\ state.posted_tasks[i].product = <<"W">>
           /\ state.posted_tasks[i].component = <<"C">>
           /\ state.posted_tasks[i].issue_number = 1

\* a step that failed although its remote call, if it made one, succeeded:
\* a component entry that does not parse, no "bug" label in the decisions
\* repository, or no repository of the configured name
LocalFailure ==
    \/ /\ executed.type = "QueryDecisionsIssuesTask"
       /\ \E i \in DOMAIN resp.val :
              /\ HasBugLabel(resp.val[i].issue_labels)
              /\ ~ProductComponent(resp.val[i].issue_labels, repo_config).ok
    \/ /\ executed.type = "RemoveDecisionsIssueBugLabelTask"
       /\ pre.state.known_labels.some
       /\ BUG \notin DOMAIN pre.state.known_labels.val
    \/ /\ executed.type = "QueryDecisionsRepoID"
       /\ ~resp.val.some

\* run returns from the loop after a save that succeeded
RunReturns == pc = "iterated" /\ pc' = "stopped" /\ exit' \in {"ok", "err"}

\* C25 (as stated): every run of the loop terminates; if every remote call
\* succeeded it ends with is_finished and both queues of the last snapshot
\* empty, otherwise at the first failed step.
C25_EndsFinishedUnlessRemoteFailure ==
    /\ (pc = "loop") ~> (pc = "stopped")
    /\ [][RunReturns =>
             IF resp.ok
             THEN /\ exit' = "ok" /\ is_finished(state)
                  /\ disk'.state.val.json.val.tasks = <<>>
                  /\ disk'.state.val.json.val.posted_tasks = <<>>
             ELSE exit' = "err" /\ result = "err"]_vars

\* C25 (amended): every run of the loop terminates.  The loop goes on only
\* after a step that succeeded and left tasks; run returns the error of the
\* first step that failed, which is a failed remote call or a local failure;
\* and it returns Ok only with is_finished and both queues of the last
\* snapshot empty.  The tasks that stage themselves again behind a loader do
\* not keep the loop running.
C25_RunTerminates ==
    /\ (pc = "loop") ~> (pc = "stopped")
    /\ [](Stepped /\ result = "err" => (~resp.ok \/ LocalFailure))
    /\ [][/\ (pc = "iterated" /\ pc' = "loop") => (result = "ok" /\ ~is_finished(state))
          /\ RunReturns =>
                 IF result = "ok"
                 THEN /\ exit' = "ok" /\ is_finished(state)
                      /\ disk'.state.val.json.val.tasks = <<>>
                      /\ disk'.state.val.json.val.posted_tasks = <<>>
                 ELSE exit' = "err"]_vars

\* a first run came to its end with success after an EnsureLabelTask, staged
\* again behind both loaders, had created its label
C25_Witness ==
    /\ pc = "stopped" /\ exit = "ok" /\ runs = 1
    /\ remote.label_creates # <<>>
    /\ disk.state.val.json.val.tasks = <<>>
    /\ disk.state.val.json.val.posted_tasks = <<>>

\* the watermark and the ledger of the working group's side of a state, and
\* those of the decisions repository's side
WGSide(st) == <<st.last_time_wg, st.handled_wg_comments>>

DecisionsSide(st) == <<st.last_time_decisions, st.handled_decisions_issues>>

\* C26: QueryWGIssuesTask, QueryWGIssueCommentsTask and ProcessWGCommentTask
\* never change last_time_decisions or handled_decisions_issues;
\* QueryDecisionsIssuesTask never changes last_time_wg or handled_wg_comments;
\* no other task changes a watermark or a ledger.
C26_IndependentSides ==
    Stepped =>
        CASE executed.type \in {"QueryWGIssuesTask", "QueryWGIssueCommentsTask",
                                "ProcessWGCommentTask"} ->
                 DecisionsSide(state) = DecisionsSide(pre.state)
          [] executed.type = "QueryDecisionsIssuesTask" ->
                 WGSide(state) = WGSide(pre.state)
          [] OTHER ->
                 /\ WGSide(state) = WGSide(pre.state)
                 /\ DecisionsSide(state) = DecisionsSide(pre.state)

\* a poll of the working group moved its watermark in a state whose
\* decisions side had moved before
C26_Witness ==
    /\ Stepped /\ executed.type = "QueryWGIssuesTask"
    /\ state.last_time_wg # pre.state.last_time_wg
    /\ state.last_time_decisions # DecisionsStart
    /\ state.handled_decisions_issues # {}

\* C27: a ProcessWGCommentTask whose body has no line that starts with
\* "RESOLVED: ", and one whose url is in handled_wg_comments, succeed and
\* leave the state as it was: the url is not added and nothing is staged.
C27_ProcessCommentNoOp ==
    (Stepped /\ executed.type = "ProcessWGCommentTask") =>
        /\ (\/ MarkerLines(executed.body_text) = <<>>
            \/ executed.url \in pre.state.handled_wg_comments) =>
               /\ result = "ok"
               /\ RunOutput = Ok(RunInput(pre.state))
               /\ state = RunInput(pre.state)
               /\ remote = pre.remote
        /\ \A c \in BodyCases :
               LET self == ProcessWGCommentTask(42, WGTitle, WGLabels, URL1, c.body)
                   st == RunInput(pre.state)
                   handled == [st EXCEPT !.handled_wg_comments = @ \cup {URL1}]
               IN /\ c.resolutions = <<>> =>
                         ProcessWGCommentTask_run(self, st, repo_config) = Ok(st)
                  /\ ProcessWGCommentTask_run(self, handled, repo_config) = Ok(handled)

\* a comment without a resolution was processed, its url not handled before,
\* in a state that has handled another comment
C27_Witness ==
    /\ Stepped /\ executed.type = "ProcessWGCommentTask"
    /\ executed.body_text = Comment2.body_text
    /\ executed.url \notin pre.state.handled_wg_comments
    /\ pre.state.handled_wg_comments # {}
    /\ state = RunInput(pre.state)

\* labels of a working-group issue and a label policy, with the labels
\* expected to be wanted, in order: a match by color, by one prefix, by two
\* prefixes, by color and prefixes, a policy of a color alone, of prefixes
\* alone (one of them twice), of the empty prefix, of no prefix, an empty
\* policy, no policy, no label
LabelCases ==
    <<[labels |-> <<[name |-> <<"c", "s">>, color |-> "c1"],
                   [name |-> <<"z">>, color |-> "c2"]>>,
      policy |-> Some([color |-> Some("c1"), prefixes |-> Some(<<<<"c">>, <<"c", "s">>>>)]),
      desired |-> <<[name |-> <<"c", "s">>, color |-> "c1"]>>],
      [labels |-> <<[name |-> <<"c", "s", "s">>, color |-> "c2"]>>,
      policy |-> Some([color |-> Some("c1"), prefixes |-> Some(<<<<"c">>, <<"c", "s">>>>)]),
      desired |-> <<[name |-> <<"c", "s", "s">>, color |-> "c2"]>>],
      [labels |-> <<[name |-> <<"c", "s", "s">>, color |-> "c1"]>>,
      policy |-> Some([color |-> Some("c1"), prefixes |-> Some(<<<<"c">>, <<"c", "s">>>>)]),
      desired |-> <<[name |-> <<"c", "s", "s">>, color |-> "c1"]>>],
      [labels |-> <<[name |-> <<"z">>, color |-> "c2"],
                   [name |-> <<"c", "a">>, color |-> "c9"],
                   [name |-> <<"a">>, color |-> "c1"]>>,
      policy |-> Some([color |-> Some("c1"), prefixes |-> Some(<<<<"c">>, <<"c", "s">>>>)]),
      desired |-> <<[name |-> <<"c", "a">>, color |-> "c9"],
                    [name |-> <<"a">>, color |-> "c1"]>>],
      [labels |-> <<[name |-> <<"a">>, color |-> "c1"],
                   [name |-> <<"b">>, color |-> "c2"]>>,
      policy |-> Some([color |-> Some("c1"), prefixes |-> None]),
      desired |-> <<[name |-> <<"a">>, color |-> "c1"]>>],
      [labels |-> <<[name |-> <<"c">>, color |-> "c1"],
                   [name |-> <<"x", "c">>, color |-> "c1"],
                   [name |-> <<"C">>, color |-> "c1"]>>,
      policy |-> Some([color |-> None, prefixes |-> Some(<<<<"c">>, <<"c">>>>)]),
      desired |-> <<[name |-> <<"c">>, color |-> "c1"]>>],
      [labels |-> <<[name |-> <<"a">>, color |-> "c1"],
                   [name |-> <<"b">>, color |-> "c2"]>>,
      policy |-> Some([color |-> None, prefixes |-> Some(<<<<>>>>)]),
      desired |-> <<[name |-> <<"a">>, color |-> "c1"],
                    [name |-> <<"b">>, color |-> "c2"]>>],
      [labels |-> <<[name |-> <<"a">>, color |-> "c1"]>>,
      policy |-> Some([color |-> Some("c1"), prefixes |-> Some(<<>>)]),
      desired |-> <<[name |-> <<"a">>, color |-> "c1"]>>],
      [labels |-> <<[name |-> <<"a">>, color |-> "c2"]>>,
      policy |-> Some([color |-> Some("c1"), prefixes |-> Some(<<>>)]),
      desired |-> <<>>],
      [labels |-> <<[name |-> <<"c", "s">>, color |-> "c1"]>>,
      policy |-> Some([color |-> None, prefixes |-> None]),
      desired |-> <<>>],
      [labels |-> <<[name |-> <<"c", "s">>, color |-> "c1"],
                   [name |-> <<"c">>, color |-> "c2"]>>,
      policy |-> None,
      desired |-> <<>>],
      [labels |-> <<>>,
      policy |-> Some([color |-> Some("c1"), prefixes |-> Some(<<<<"c">>, <<"c", "s">>>>)]),
      desired |-> <<>>]>>

URL3 == <<"u", "3">>

\* the tasks expected for the wanted labels: one EnsureLabelTask for each,
\* then one FileIssueTask with their prefixed names
ExpectedStaging(self, desired) ==
    [i \in DOMAIN desired |->
        EnsureLabelTask(SPEC_PREFIX \o desired[i].name, desired[i].color)]
    \o <<FileIssueTask(self.issue_number, self.issue_title,
                       [i \in DOMAIN desired |-> SPEC_PREFIX \o desired[i].name],
                       self.url, MarkerLines(self.body_text))>>

\* C28: a ProcessWGCommentTask with resolutions and a url not handled
\* stages, in this order, one EnsureLabelTask{"[spec] " + name, color} for
\* each label of the issue whose color is the configured one or whose name
\* starts with a configured prefix, in the labels' order and once per label,
\* then one FileIssueTask with those prefixed names; without a label policy
\* it stages the FileIssueTask alone.
C28_StagedForComment ==
    (Stepped /\ executed.type = "ProcessWGCommentTask") =>
        /\ (/\ MarkerLines(executed.body_text) # <<>>
            /\ executed.url \notin pre.state.handled_wg_comments) =>
               /\ result = "ok"
               /\ state.posted_tasks =
                      ExpectedStaging(executed,
                          IF repo_config.labels.some
                          THEN SelectSeq(executed.issue_labels,
                                         LAMBDA l : LabelDesired(l, repo_config.labels.val))
                          ELSE <<>>)
        /\ \A k \in DOMAIN LabelCases :
               LET c == LabelCases[k]
                   self == ProcessWGCommentTask(42, WGTitle, c.labels, URL3,
                                                Comment1.body_text)
                   cfg == [labels |-> c.policy, components |-> None]
                   out == ProcessWGCommentTask_run(self, RunInput(pre.state), cfg)
               IN /\ out.res = "ok"
                  /\ out.st.posted_tasks = ExpectedStaging(self, c.desired)
                  /\ ~c.policy.some => Len(out.st.posted_tasks) = 1

\* a comment with a resolution was processed for an issue with one wanted
\* label and one that is not: an EnsureLabelTask, then the FileIssueTask
C28_Witness ==
    /\ Stepped /\ executed.type = "ProcessWGCommentTask"
    /\ executed.url \notin pre.state.handled_wg_comments
    /\ Len(executed.issue_labels) = 2
    /\ Len(state.posted_tasks) = 2
    /\ state.posted_tasks[1] = EnsureLabelTask(SPEC_PREFIX \o <<"c", "s">>, "c1")
    /\ state.posted_tasks[2].type = "FileIssueTask"
    /\ state.posted_tasks[2].issue_labels = <<SPEC_PREFIX \o <<"c", "s">>>>

\* C29: an EnsureLabelTask that finds both caches and its name in
\* known_labels makes no remote call and changes nothing; with its name not
\* in known_labels it makes one create_label call, and known_labels then maps
\* the name to the id the call returned; when the call fails known_labels is
\* as it was and the step fails.
C29_EnsureLabel ==
    (/\ Stepped /\ executed.type = "EnsureLabelTask"
     /\ pre.state.known_labels.some /\ pre.state.decisions_repo_id.some) =>
        LET known_labels == pre.state.known_labels.val
            name == executed.name
        IN IF name \in DOMAIN known_labels
           THEN /\ result = "ok"
                /\ RunOutput.call = NoCall
                /\ remote = pre.remote
                /\ state = RunInput(pre.state)
           ELSE IF resp.ok
           THEN /\ result = "ok"
                /\ RunOutput.call = [op |-> "create_label",
                                     repo_id |-> pre.state.decisions_repo_id.val,
                                     name |-> name, color |-> executed.color]
                /\ remote.label_creates = Bump(pre.remote.label_creates, name)
                /\ remote.labels = pre.remote.labels \cup {name}
                /\ DOMAIN state.known_labels.val = DOMAIN known_labels \cup {name}
                /\ state.known_labels.val[name] = resp.val
                /\ \A n \in DOMAIN known_labels : state.known_labels.val[n] = known_labels[n]
                /\ [state EXCEPT !.known_labels = pre.state.known_labels] = RunInput(pre.state)
           ELSE /\ result = "err"
                /\ RunOutput.call = NoCall
                /\ remote = pre.remote
                /\ state.known_labels = pre.state.known_labels
                /\ RunOutput.st = RunInput(pre.state)

\* an EnsureLabelTask created its label in a repository that held the "bug"
\* label, and the cache holds both
C29_Witness ==
    /\ Stepped /\ executed.type = "EnsureLabelTask"
    /\ pre.state.known_labels.some /\ pre.state.decisions_repo_id.some
    /\ BUG \in DOMAIN pre.state.known_labels.val
    /\ executed.name \notin DOMAIN pre.state.known_labels.val
    /\ RunOutput.call.op = "create_label"
    /\ state.known_labels.val[executed.name] = LabelId(executed.name)

\* the issues of a batch the poll acts on: not handled before, with "bug"
ActedOn(issues, handled) ==
    SelectSeq(issues, LAMBDA issue : /\ issue.issue_number \notin handled
                                     /\ HasBugLabel(issue.issue_labels))

\* the kind and the issue of each task of a queue
Kinds(q) ==
    [i \in DOMAIN q |->
        <<q[i].type,
          IF q[i].type = "FileBugForDecisionsIssueTask"
          THEN IssueId(q[i].issue_number) ELSE q[i].issue_id>>]

\* C30: a QueryDecisionsIssuesTask acts on the issues of its batch that are
\* not in handled_decisions_issues and carry the label "bug", and on no
\* other: for each of them, in the order of the batch, it adds the number to
\* the ledger and stages FileBugForDecisionsIssueTask,
\* RemoveDecisionsIssueBugLabelTask and CloseIssueTask, in that order.
C30_ActsOnUnhandledBugIssues ==
    (Stepped /\ executed.type = "QueryDecisionsIssuesTask" /\ resp.ok) =>
        LET acted == ActedOn(resp.val, pre.state.handled_decisions_issues)
        IN /\ state.handled_decisions_issues =
                  pre.state.handled_decisions_issues
                      \cup {acted[i].issue_number : i \in DOMAIN acted}
           /\ Kinds(state.posted_tasks) =
                  Concat([i \in DOMAIN acted |->
                             <<<<"FileBugForDecisionsIssueTask", acted[i].id>>,
                               <<"RemoveDecisionsIssueBugLabelTask", acted[i].id>>,
                               <<"CloseIssueTask", acted[i].id>>>>])

\* C31: a RemoveDecisionsIssueBugLabelTask that finds known_labels present
\* but without "bug" fails the step without a remove_labels call, stages
\* nothing, and is again the front of tasks; with "bug" in known_labels its
\* one call is remove_labels for its issue with the id of that label, and it
\* stages nothing (when that call fails the step fails, and the task is
\* again the front of tasks).
C31_RemoveBugLabel ==
    (/\ Stepped /\ executed.type = "RemoveDecisionsIssueBugLabelTask"
     /\ pre.state.known_labels.some) =>
        LET known_labels == pre.state.known_labels.val
            requeued == [pre.state EXCEPT !.tasks = QueueOf(pre.state),
                                          !.posted_tasks = <<>>]
        IN IF BUG \notin DOMAIN known_labels
           THEN /\ result = "err"
                /\ RunOutput.call = NoCall
                /\ remote = pre.remote
                /\ state = requeued
                /\ Head(state.tasks) = executed
           ELSE IF resp.ok
           THEN /\ result = "ok"
                /\ RunOutput.call = [op |-> "remove_labels",
                                     issue_id |-> executed.issue_id,
                                     labels |-> <<known_labels[BUG]>>]
                /\ state = RunInput(pre.state)
                /\ state.posted_tasks = <<>>
           ELSE /\ result = "err"
                /\ RunOutput.call = NoCall
                /\ state = requeued

\* the task of issue 1 ran against a cache that holds labels but not "bug",
\* with the CloseIssueTask of the issue behind it
C31_Witness ==
    /\ Stepped /\ executed = RemoveDecisionsIssueBugLabelTask(IssueId(1))
    /\ pre.state.known_labels.some
    /\ BUG \notin DOMAIN pre.state.known_labels.val
    /\ result = "err"
    /\ Len(state.tasks) >= 2
    /\ state.tasks[1] = executed
    /\ state.tasks[2] = CloseIssueTask(IssueId(1))

\* the comments of a list created at or after a time, in the list's order
CreatedSince(comments, since) ==
    SelectSeq(comments, LAMBDA comment : comment.created_at >= since)

\* C32: a QueryWGIssueCommentsTask whose query is answered stages one
\* ProcessWGCommentTask for each fetched comment whose created_at is at or
\* after the task's since, in the order of the comments, each with the task's
\* issue number, title and labels and the comment's url and body, and stages
\* nothing else; and every QueryWGIssueCommentsTask a QueryWGIssuesTask
\* stages carries the since of that poll, whatever last_time_wg the poll set.
C32_CommentsSince ==
    /\ (Stepped /\ executed.type = "QueryWGIssueCommentsTask" /\ resp.ok) =>
           LET kept == CreatedSince(resp.val, executed.since)
           IN /\ result = "ok"
              /\ Len(state.posted_tasks) = Len(kept)
              /\ \A i \in DOMAIN kept :
                     state.posted_tasks[i] =
                         [type |-> "ProcessWGCommentTask",
                          issue_number |-> executed.number,
                          issue_title |-> executed.issue_title,
                          issue_labels |-> executed.issue_labels,
                          url |-> kept[i].url, body_text |-> kept[i].body_text]
              /\ state.tasks = Tail(QueueOf(pre.state))
    /\ (Stepped /\ executed.type = "QueryWGIssuesTask" /\ resp.ok) =>
           /\ Len(state.posted_tasks) = Len(resp.val)
           /\ \A i \in DOMAIN resp.val :
                  /\ state.posted_tasks[i].type = "QueryWGIssueCommentsTask"
                  /\ state.posted_tasks[i].number = resp.val[i].issue_number
                  /\ state.posted_tasks[i].since = executed.since

\* a task with since = MaxTime fetched an earlier comment and one created at
\* MaxTime: only the second is staged
C32_Witness ==
    /\ Stepped /\ executed.type = "QueryWGIssueCommentsTask"
    /\ executed.since = MaxTime
    /\ resp.ok /\ resp.val = <<Comment1, Comment2>>
    /\ Comment1.created_at < executed.since
    /\ Comment2.created_at = executed.since
    /\ Len(state.posted_tasks) = 1
    /\ state.posted_tasks[1].url = Comment2.url

\* how far the handling of a decision issue has come on the trackers: the
\* effects made for it so far
Filed(rem, n) == Count(rem.bugs, n) > 0

Linked(rem, n) == <<IssueId(n), BugUrl>> \in rem.comments

Commented(rem, n) == \E c \in rem.comments : c[1] = IssueId(n)

Unlabeled(rem, n) == IssueId(n) \in rem.unlabeled

Closed(rem, n) == IssueId(n) \in rem.closed

\* the effects of a decision issue came in the order of the pipeline
InOrder(rem, n) ==
    /\ Closed(rem, n) => Unlabeled(rem, n)
    /\ Unlabeled(rem, n) => Linked(rem, n)
    /\ Commented(rem, n) => Linked(rem, n) /\ Filed(rem, n)

\* C33: for every decision issue, along every behaviour (failed steps,
\* crashes and restores included): a comment is added to the issue only after
\* its bug was filed, and carries the url of the bug; the "bug" label is
\* removed only after that comment; the issue is closed only after the label
\* was removed; and no effect of an earlier stage is made once one of a later
\* stage was (a stage may repeat).
C33_EffectsInOrder ==
    /\ \A n \in DecNums : InOrder(remote, n)
    /\ Stepped =>
           LET call == RunOutput.call
               rem == pre.remote
           IN /\ call.op = "file_bug" =>
                     /\ ~Commented(rem, call.issue_number)
                     /\ ~Unlabeled(rem, call.issue_number)
                     /\ ~Closed(rem, call.issue_number)
              /\ call.op = "add_issue_comment" =>
                     /\ call.body = BugUrl
                     /\ Filed(rem, call.issue_id[2])
                     /\ ~Unlabeled(rem, call.issue_id[2])
                     /\ ~Closed(rem, call.issue_id[2])
              /\ call.op = "remove_labels" =>
                     /\ Linked(rem, call.issue_id[2])
                     /\ ~Closed(rem, call.issue_id[2])
              /\ call.op = "close_issue" =>
                     /\ Unlabeled(rem, call.issue_id[2])
                     /\ Linked(rem, call.issue_id[2])
                     /\ Filed(rem, call.issue_id[2])

\* issue 1 is closed after its bug was filed twice: a run died between the
\* filing and the save, and the next one went through all four stages
C33_Witness ==
    /\ Stepped /\ executed = CloseIssueTask(IssueId(1))
    /\ Count(remote.bugs, 1) = 2
    /\ ~Closed(pre.remote, 1) /\ Closed(remote, 1)
    /\ Unlabeled(remote, 1) /\ Linked(remote, 1) /\ Filed(remote, 1)

\* the document a run starts from: the one of the state file, or, without a
\* state file, the one of a new state
StartDocument ==
    IF disk.state.some THEN disk.state.val.json.val ELSE Serialize(State_new(StartDate))

\* the two polls a run adds to a document's tasks
NewPolls(document) ==
    <<[type |-> "QueryWGIssuesTask", since |-> document.last_time_wg],
      [type |-> "QueryDecisionsIssuesTask", since |-> document.last_time_decisions]>>

LastTwo(q) == SubSeq(q, Len(q) - 1, Len(q))

\* C34: the start of a run leaves the state of the snapshot as it is but for
\* two tasks appended to the back of tasks, QueryWGIssuesTask with since =
\* last_time_wg, then QueryDecisionsIssuesTask with since =
\* last_time_decisions, and touches neither the files nor the trackers; the
\* first step executes the front of the snapshot's posted_tasks and tasks if
\* there is one; and as long as a task stands before the last two tasks of
\* the queue a step executes the front and leaves the last two where they
\* are, so the new polls run only when everything before them has run.
C34_StartAppendsPolls ==
    [][/\ (pc = "stopped" /\ pc' = "loop") =>
              /\ Serialize(state') =
                     [StartDocument EXCEPT !.tasks = @ \o NewPolls(StartDocument)]
              /\ state'.known_labels = None /\ state'.decisions_repo_id = None
              /\ NextTask(state') = Head(QueueOf(StartDocument) \o NewPolls(StartDocument))
              /\ disk' = disk /\ remote' = remote
       /\ (pc = "loop" /\ pc' = "iterated") =>
              /\ executed' = Head(QueueOf(state))
              /\ Len(QueueOf(state)) >= 3 =>
                     /\ Len(QueueOf(state')) >= 2
                     /\ LastTwo(QueueOf(state')) = LastTwo(QueueOf(state))
       /\ (pc = "iterated" /\ pc' = "loop") => state' = state]_vars

\* a run has just started from a snapshot that holds staged and pending
\* tasks: they stand before the two new polls
C34_Witness ==
    /\ pc = "loop" /\ executed = NoTask
    /\ disk.state.some
    /\ StartDocument.posted_tasks # <<>> /\ StartDocument.tasks # <<>>
    /\ state.posted_tasks = StartDocument.posted_tasks
    /\ state.tasks = StartDocument.tasks \o NewPolls(StartDocument)
    /\ NextTask(state) = Head(StartDocument.posted_tasks)

\* in a queue, every label name of a FileIssueTask either exists in the
\* decisions repository or has its EnsureLabelTask before the FileIssueTask
EnsuredOrAhead(q, rem) ==
    \A i \in DOMAIN q :
        q[i].type = "FileIssueTask" =>
            \A k \in DOMAIN q[i].issue_labels :
                \/ q[i].issue_labels[k] \in rem.labels
                \/ \E j \in 1..(i - 1) : /\ q[j].type = "EnsureLabelTask"
                                         /\ q[j].name = q[i].issue_labels[k]

\* C35: in the queue of the running state and of the snapshot, the
\* EnsureLabelTasks a ProcessWGCommentTask staged stand before its
\* FileIssueTask until they are done: every label name of a FileIssueTask has
\* an EnsureLabelTask before it or exists in the repository; an
\* EnsureLabelTask leaves the queue only by a step that succeeds with its
\* name in known_labels; and when a FileIssueTask makes its create_issue
\* call no EnsureLabelTask of its labels is left in the queue, every one of
\* its label names is in known_labels, and the call carries the id of each.
C35_LabelsBeforeIssue ==
    /\ (pc \in {"loop", "iterated"}) => EnsuredOrAhead(QueueOf(state), remote)
    /\ disk.state.some => EnsuredOrAhead(QueueOf(disk.state.val.json.val), remote)
    /\ (Stepped /\ executed.type = "EnsureLabelTask"
          /\ \A i \in DOMAIN QueueOf(state) : QueueOf(state)[i] # executed) =>
           /\ result = "ok"
           /\ state.known_labels.some
           /\ executed.name \in DOMAIN state.known_labels.val
           /\ executed.name \in remote.labels
    /\ (Stepped /\ executed.type = "FileIssueTask"
          /\ RunOutput.call.op = "create_issue") =>
           LET names == executed.issue_labels
               queue == QueueOf(pre.state)
           IN /\ \A i \in DOMAIN queue, k \in DOMAIN names :
                     ~(queue[i].type = "EnsureLabelTask" /\ queue[i].name = names[k])
              /\ \A k \in DOMAIN names : names[k] \in DOMAIN pre.state.known_labels.val
              /\ RunOutput.call.labels =
                     [k \in DOMAIN names |-> pre.state.known_labels.val[names[k]]]

\* a FileIssueTask made its call with the id of a label that did not exist
\* before its EnsureLabelTask created it
C35_Witness ==
    /\ Stepped /\ executed.type = "FileIssueTask"
    /\ RunOutput.call.op = "create_issue"
    /\ Len(executed.issue_labels) = 1
    /\ Count(remote.label_creates, executed.issue_labels[1]) = 1
    /\ RunOutput.call.labels = <<LabelId(executed.issue_labels[1])>>

\* the step reached the remote mutation of its task: the call was made (and
\* recorded), or it was made and failed. A RemoveDecisionsIssueBugLabelTask
\* also fails before its call, on a cache without "bug".
ReachedCall ==
    /\ Stepped
    /\ \/ RunOutput.call # NoCall
       \/ /\ result = "err"
          /\ executed.type = "RemoveDecisionsIssueBugLabelTask" =>
                 (pre.state.known_labels.some => BUG \in DOMAIN pre.state.known_labels.val)

\* a cache that is present stays present, with at least the entries it had
CachesKept(st, next) ==
    /\ st.decisions_repo_id.some => next.decisions_repo_id = st.decisions_repo_id
    /\ st.known_labels.some =>
           /\ next.known_labels.some
           /\ DOMAIN st.known_labels.val \subseteq DOMAIN next.known_labels.val

\* C36: an EnsureLabelTask or a FileIssueTask reaches its create_label or
\* create_issue call only with known_labels and decisions_repo_id present
\* (the call carries that repository id), and a
\* RemoveDecisionsIssueBugLabelTask its remove_labels call only with
\* known_labels present; and from one step to the next of a run, a cache
\* that is present stays present and known_labels loses no entry.
C36_CachesPresent ==
    /\ [](/\ (ReachedCall /\ executed.type \in {"EnsureLabelTask", "FileIssueTask"}) =>
                 /\ pre.state.known_labels.some
                 /\ pre.state.decisions_repo_id.some
                 /\ RunOutput.call # NoCall =>
                        /\ RunOutput.call.op = IF executed.type = "EnsureLabelTask"
                                               THEN "create_label" ELSE "create_issue"
                        /\ RunOutput.call.repo_id = pre.state.decisions_repo_id.val
          /\ (ReachedCall /\ executed.type = "RemoveDecisionsIssueBugLabelTask") =>
                 pre.state.known_labels.some
          /\ (Stepped /\ RunOutput.call # NoCall
                /\ RunOutput.call.op \in {"create_label", "create_issue"}) =>
                 pre.state.known_labels.some /\ pre.state.decisions_repo_id.some
          /\ (Stepped /\ RunOutput.call # NoCall /\ RunOutput.call.op = "remove_labels") =>
                 pre.state.known_labels.some
          /\ Stepped => CachesKept(pre.state, state))
    /\ [][(pc # "stopped" /\ pc' # "stopped") => CachesKept(state, state')]_vars

\* a remove_labels call was made with known_labels loaded and no
\* decisions_repo_id: the task asks for the one cache it reads
C36_Witness ==
    /\ Stepped /\ executed.type = "RemoveDecisionsIssueBugLabelTask"
    /\ RunOutput.call # NoCall /\ RunOutput.call.op = "remove_labels"
    /\ pre.state.known_labels.some
    /\ ~pre.state.decisions_repo_id.some
    /\ state.known_labels = pre.state.known_labels

\* the state file exists and is not a snapshot of version 1
Unrestorable(d) == d.state.some /\ ~from_path(d.state.val).ok

\* what State::new gives for the start date
FreshState ==
    [tasks |-> <<>>, posted_tasks |-> <<>>, handled_wg_comments |-> {},
     handled_decisions_issues |-> {}, known_labels |-> None,
     decisions_repo_id |-> None, last_time_wg |-> StartDate,
     last_time_decisions |-> DecisionsStart]

\* C37: while the state file exists and cannot be restored, no run gets to
\* the loop: each ends with the error (or, the lock being held, with Ok)
\* before any poll is scheduled or any task executed, and leaves the state
\* file, the temp file and the trackers as they are; a run also ends so when
\* a restorable file cannot be read. A run starts from a new state (nothing
\* queued, staged or handled, last_time_wg the start date) exactly when no
\* state file exists, and from the restored snapshot when one does.
C37_UnrestorableSnapshot ==
    /\ [](Unrestorable(disk) =>
              /\ pc = "stopped"
              /\ exit \in {"none", "err", "load_err", "locked"}
              /\ state = State_default
              /\ executed = NoTask)
    /\ [][/\ Unrestorable(disk) =>
                 /\ disk' = disk /\ remote' = remote /\ pc' = "stopped"
                 /\ (exit' # exit) =>
                        exit' \in IF try_lock(TRACKER, lock)
                                  THEN {"err", "load_err"} ELSE {"locked"}
          /\ (exit' = "load_err" /\ exit # "load_err") =>
                 /\ pc = "stopped" /\ disk.state.some
                 /\ pc' = "stopped" /\ state' = State_default /\ executed' = NoTask
                 /\ disk' = disk /\ remote' = remote
          /\ (pc = "stopped" /\ pc' = "loop") =>
                 /\ ~Unrestorable(disk)
                 /\ IF disk.state.some
                    THEN Serialize(state') =
                             [disk.state.val.json.val EXCEPT
                                  !.tasks = @ \o NewPolls(disk.state.val.json.val)]
                    ELSE state' = [FreshState EXCEPT
                                       !.tasks = NewPolls(Serialize(FreshState))]]_vars

\* a run ended with the error on a state file of version 2, which is still
\* there
C37_Witness ==
    /\ pc = "stopped" /\ exit = "load_err"
    /\ disk.state = Some([header |-> Some(Decimal(2)),
                          json |-> Some(Serialize(State_new(StartDate)))])
    /\ Unrestorable(disk)

====
